---- MODULE Spec2Model ----
(***************************************************************************)
(* Session snapshot persistence and incremental transcript-token           *)
(* accounting of statusline-pro (src/storage).                             *)
(*                                                                         *)
(* The state is the sessions directory (one snapshot file per session id)  *)
(* and the transcript files the payloads point at.  One action models one  *)
(* call of StorageManager::update_snapshot_from_value; further actions     *)
(* model the host writing, truncating and removing transcript files,       *)
(* get_snapshot, cleanup_old_sessions, and, for the interleavings of       *)
(* concurrent calls, the single file operations of an update.              *)
(*                                                                         *)
(* Conventions.  Option<T> is a sequence of length 0 (None) or 1           *)
(* (Some(v)).  total_cost_usd, an f64 in the code, is counted in whole     *)
(* units of half a dollar; the u64 fields are naturals (their 64-bit       *)
(* width is never approached by the values drawn here).  The meta          *)
(* timestamps and the sanitized `latest` copy of the payload are not part  *)
(* of the modelled snapshot: no step of the cost, token, model-usage or    *)
(* cursor logic reads them.  A file's content is a sequence of chunks;     *)
(* the serialized snapshot has two, so that a file can hold the first      *)
(* part of one, or parts of two different snapshots.  Time is counted in   *)
(* whole days.                                                             *)
(***************************************************************************)
EXTENDS Integers, Sequences, FiniteSets, TLC

VARIABLES
    store,      \* sessions directory: session id -> snapshot file content
    fs,         \* transcript files: path -> missing or sequence of lines
    lastOp,     \* the most recent operation, its inputs and what it observed
    ghost,      \* bookkeeping about the transcript file since the last update
    nupdates,   \* number of update calls made so far
    mtime,      \* sessions directory: session id -> modification time of the file
    tmpfiles,   \* sessions directory: session id -> content of <id>.json.tmp
    procs,      \* calls in progress: process -> position, locals, open file
    config,     \* the StorageConfig the manager was built with
    clock,      \* the current time (Utc::now)
    runtime,    \* STORAGE_RUNTIME's project id, and the other projects' directories
    modified,   \* transcript files: path -> modification time of the file
    transcript_cache    \* the StatusComponent's memoized transcript status

vars ==
    <<store, fs, lastOp, ghost, nupdates, mtime, tmpfiles, procs, config, clock,
      runtime, modified, transcript_cache>>

(***************************************************************************)
(* Bounds of the model.                                                    *)
(***************************************************************************)
MaxCost == 2
MaxUpdates == 2
MaxCostUpdates == 2
MaxPathUpdates == 3
MaxPathLines == 2
MaxLines == 3
MaxDays == 2
MaxRetention == 1
MaxStoreUpdates == 2
MaxModelUpdates == 3
MaxPathLen == 4
MaxSessionUpdates == 3
MaxPartialUpdates == 3
MaxPartialLines == 2
MaxSaveUpdates == 3
MaxRepeatUpdates == 3
MaxRepeatLines == 2
MaxRegistryUpdates == 2

None == <<>>
Some(v) == <<v>>
IsSome(o) == o # <<>>
Unwrap(o) == o[1]

SessionIds == {"s1", "s2"}
TranscriptPaths == {"A", "B"}

(***************************************************************************)
(* CostMetrics and CostHistory (storage/types.rs).                         *)
(***************************************************************************)
CostFields ==
    {"total_cost_usd", "total_duration_ms", "total_api_duration_ms",
     "total_lines_added", "total_lines_removed"}

CostMetricsDefault ==
    [total_cost_usd |-> 0, total_duration_ms |-> 0, total_api_duration_ms |-> 0,
     total_lines_added |-> 0, total_lines_removed |-> 0]

CostHistoryDefault ==
    [current |-> CostMetricsDefault,
     accumulated |-> CostMetricsDefault,
     total |-> CostMetricsDefault]

\* Value::as_f64 of an optional JSON number: any number is accepted.
as_f64_or_default(v) == IF IsSome(v) THEN Unwrap(v) ELSE 0

\* Value::as_u64 of an optional JSON number: a negative number is not a u64,
\* and unwrap_or_default then gives 0.
as_u64_or_default(v) == IF IsSome(v) /\ Unwrap(v) >= 0 THEN Unwrap(v) ELSE 0

from_cost_value(value) ==
    [total_cost_usd |-> as_f64_or_default(value.total_cost_usd),
     total_duration_ms |-> as_u64_or_default(value.total_duration_ms),
     total_api_duration_ms |-> as_u64_or_default(value.total_api_duration_ms),
     total_lines_added |-> as_u64_or_default(value.total_lines_added),
     total_lines_removed |-> as_u64_or_default(value.total_lines_removed)]

apply_MutFoldAll(self, new_metrics) ==
    LET reset == \E f \in CostFields :
                    self.current[f] > 0 /\ new_metrics[f] < self.current[f]
        accumulated == [f \in CostFields |->
                          IF reset
                          THEN self.accumulated[f] + self.current[f]
                          ELSE self.accumulated[f]]
    IN  [current |-> new_metrics,
         accumulated |-> accumulated,
         total |-> [f \in CostFields |-> new_metrics[f] + accumulated[f]]]

apply_MutStaleTotal(self, new_metrics) ==
    LET accumulated == [f \in CostFields |->
                          IF self.current[f] > 0 /\ new_metrics[f] < self.current[f]
                          THEN self.accumulated[f] + self.current[f]
                          ELSE self.accumulated[f]]
    IN  [current |-> new_metrics,
         accumulated |-> accumulated,
         total |-> [f \in CostFields |-> self.current[f] + accumulated[f]]]

apply_MutFoldOnEqual(self, new_metrics) ==
    LET accumulated == [f \in CostFields |->
                          IF self.current[f] > 0 /\ new_metrics[f] <= self.current[f]
                          THEN self.accumulated[f] + self.current[f]
                          ELSE self.accumulated[f]]
    IN  [current |-> new_metrics,
         accumulated |-> accumulated,
         total |-> [f \in CostFields |-> new_metrics[f] + accumulated[f]]]

apply_MutNoFold(self, new_metrics) ==
    [current |-> new_metrics,
     accumulated |-> self.accumulated,
     total |-> [f \in CostFields |-> new_metrics[f] + self.accumulated[f]]]

\* CostHistory::apply
apply(self, new_metrics) ==
    LET accumulated ==
          [total_cost_usd |->
              IF /\ self.current.total_cost_usd > 0
                 /\ new_metrics.total_cost_usd < self.current.total_cost_usd
              THEN self.accumulated.total_cost_usd + self.current.total_cost_usd
              ELSE self.accumulated.total_cost_usd,
           total_duration_ms |->
              IF /\ self.current.total_duration_ms > 0
                 /\ new_metrics.total_duration_ms < self.current.total_duration_ms
              THEN self.accumulated.total_duration_ms + self.current.total_duration_ms
              ELSE self.accumulated.total_duration_ms,
           total_api_duration_ms |->
              IF /\ self.current.total_api_duration_ms > 0
                 /\ new_metrics.total_api_duration_ms < self.current.total_api_duration_ms
              THEN self.accumulated.total_api_duration_ms
                     + self.current.total_api_duration_ms
              ELSE self.accumulated.total_api_duration_ms,
           total_lines_added |->
              IF /\ self.current.total_lines_added > 0
                 /\ new_metrics.total_lines_added < self.current.total_lines_added
              THEN self.accumulated.total_lines_added + self.current.total_lines_added
              ELSE self.accumulated.total_lines_added,
           total_lines_removed |->
              IF /\ self.current.total_lines_removed > 0
                 /\ new_metrics.total_lines_removed < self.current.total_lines_removed
              THEN self.accumulated.total_lines_removed + self.current.total_lines_removed
              ELSE self.accumulated.total_lines_removed]
    IN  [current |-> new_metrics,
         accumulated |-> accumulated,
         total |->
            [total_cost_usd |->
                new_metrics.total_cost_usd + accumulated.total_cost_usd,
             total_duration_ms |->
                new_metrics.total_duration_ms + accumulated.total_duration_ms,
             total_api_duration_ms |->
                new_metrics.total_api_duration_ms + accumulated.total_api_duration_ms,
             total_lines_added |->
                new_metrics.total_lines_added + accumulated.total_lines_added,
             total_lines_removed |->
                new_metrics.total_lines_removed + accumulated.total_lines_removed]]

(***************************************************************************)
(* Transcript files.  A line of the newline-delimited JSON transcript is   *)
(* described by what serde_json and the token extraction see of it:        *)
(* whether it is blank after trim(), whether it parses, the fields the     *)
(* code looks at, and its length in bytes (newline included).              *)
(***************************************************************************)
AssistantLine1 ==
    [blank |-> FALSE, json |-> TRUE, isCompactSummary |-> FALSE, type |-> "assistant",
     usage |-> Some([input_tokens |-> Some(10), output_tokens |-> Some(5),
                     cache_creation_input_tokens |-> Some(100),
                     cache_read_input_tokens |-> Some(20)]),
     uuid |-> Some("msg-1"), timestamp |-> Some("t1"), bytes |-> 3]

AssistantLine2 ==
    [blank |-> FALSE, json |-> TRUE, isCompactSummary |-> FALSE, type |-> "assistant",
     usage |-> Some([input_tokens |-> Some(20), output_tokens |-> Some(10),
                     cache_creation_input_tokens |-> Some(200),
                     cache_read_input_tokens |-> None]),
     uuid |-> Some("msg-2"), timestamp |-> Some("t3"), bytes |-> 3]

SummaryLine ==
    [blank |-> FALSE, json |-> TRUE, isCompactSummary |-> TRUE, type |-> "",
     usage |-> None, uuid |-> Some("summary-1"), timestamp |-> Some("t2"), bytes |-> 3]

UserLine ==
    [blank |-> FALSE, json |-> TRUE, isCompactSummary |-> FALSE, type |-> "user",
     usage |-> None, uuid |-> Some("msg-u"), timestamp |-> Some("t0"), bytes |-> 2]

GarbageLine ==
    [blank |-> FALSE, json |-> FALSE, isCompactSummary |-> FALSE, type |-> "",
     usage |-> None, uuid |-> None, timestamp |-> None, bytes |-> 2]

BlankLine ==
    [blank |-> TRUE, json |-> FALSE, isCompactSummary |-> FALSE, type |-> "",
     usage |-> None, uuid |-> None, timestamp |-> None, bytes |-> 1]

TranscriptLines ==
    {AssistantLine1, AssistantLine2, SummaryLine, UserLine, GarbageLine, BlankLine}

\* What read_line returns when the read starts k bytes before the end of a
\* line: the tail of the line.  The last byte alone is the newline (blank
\* after trim); a longer tail of a JSON text is not a JSON text.
LineTail(line, k) ==
    [blank |-> line.blank \/ k = 1, json |-> FALSE, isCompactSummary |-> FALSE,
     type |-> "", usage |-> None, uuid |-> None, timestamp |-> None, bytes |-> k]

\* What read_line returns at the end of a file whose last line is written
\* up to its first k bytes only: with nothing but the newline missing the
\* text parses as the line does; a shorter head of a JSON text is not a JSON
\* text.  The field partial marks the record as an unterminated line.
LineHead(line, k) ==
    LET seen == IF k = line.bytes - 1 THEN [line EXCEPT !.bytes = k]
                ELSE [LineTail(line, k) EXCEPT !.blank = FALSE]
    IN  [f \in DOMAIN seen \cup {"partial"} |->
            IF f = "partial" THEN TRUE ELSE seen[f]]

IsPartial(line) == "partial" \in DOMAIN line

RECURSIVE FileLen(_)
\* fs::metadata(path).len()
FileLen(content) ==
    IF content = <<>> THEN 0
    ELSE content[Len(content)].bytes + FileLen(SubSeq(content, 1, Len(content) - 1))

RECURSIVE ReadLines(_, _)
\* file.seek(SeekFrom::Start(offset)) followed by read_line until end of file:
\* the chunks the reader hands out, in order.
ReadLines(content, offset) ==
    IF content = <<>> THEN <<>>
    ELSE LET line == Head(content)
         IN  IF offset <= 0 THEN <<line>> \o ReadLines(Tail(content), 0)
             ELSE IF offset < line.bytes
                  THEN <<LineTail(line, line.bytes - offset)>> \o ReadLines(Tail(content), 0)
                  ELSE ReadLines(Tail(content), offset - line.bytes)

(***************************************************************************)
(* TokenHistory and the token extraction (storage/manager.rs).             *)
(***************************************************************************)
TokenHistoryDefault ==
    [input |-> 0, output |-> 0, cache_creation_input |-> 0, cache_read_input |-> 0,
     context_used |-> 0, last_message_uuid |-> None, last_timestamp |-> None]

is_compact_summary(value) == value.isCompactSummary

token_entry_from_summary_MutKeepId(value) ==
    [TokenHistoryDefault EXCEPT !.last_timestamp = value.timestamp,
                                !.last_message_uuid = value.uuid]

token_entry_from_summary(value) ==
    [TokenHistoryDefault EXCEPT !.last_timestamp = value.timestamp]

token_entry_from_message(value) ==
    IF value.type # "assistant" THEN None
    ELSE IF value.usage = None THEN None
    ELSE LET usage == Unwrap(value.usage)
             input == as_u64_or_default(usage.input_tokens)
             output == as_u64_or_default(usage.output_tokens)
             cache_creation == as_u64_or_default(usage.cache_creation_input_tokens)
             cache_read == as_u64_or_default(usage.cache_read_input_tokens)
         IN  Some([input |-> input, output |-> output,
                   cache_creation_input |-> cache_creation,
                   cache_read_input |-> cache_read,
                   context_used |-> input + output + cache_creation + cache_read,
                   last_message_uuid |-> value.uuid,
                   last_timestamp |-> value.timestamp])

process_line_MutCountBlank(st, line) ==
    LET moved == [st EXCEPT !.current_offset = @ + line.bytes] IN
    IF line.blank THEN [moved EXCEPT !.processed_messages = @ + 1]
    ELSE LET counted == [moved EXCEPT !.processed_messages = @ + 1] IN
         IF ~line.json THEN counted
         ELSE IF is_compact_summary(line)
              THEN [counted EXCEPT !.latest_tokens = Some(token_entry_from_summary(line))]
              ELSE IF IsSome(token_entry_from_message(line))
                   THEN [counted EXCEPT !.latest_tokens = token_entry_from_message(line)]
                   ELSE counted

AddTokens(latest, entry) ==
    IF latest = None THEN entry
    ELSE LET old == Unwrap(latest)
             new == Unwrap(entry)
         IN  Some([new EXCEPT
                     !.input = @ + old.input,
                     !.output = @ + old.output,
                     !.cache_creation_input = @ + old.cache_creation_input,
                     !.cache_read_input = @ + old.cache_read_input,
                     !.context_used = @ + old.context_used])

process_line_MutAccumulate(st, line) ==
    LET moved == [st EXCEPT !.current_offset = @ + line.bytes] IN
    IF line.blank THEN moved
    ELSE LET counted == [moved EXCEPT !.processed_messages = @ + 1] IN
         IF ~line.json THEN counted
         ELSE IF is_compact_summary(line)
              THEN [counted EXCEPT !.latest_tokens = Some(token_entry_from_summary(line))]
              ELSE IF IsSome(token_entry_from_message(line))
                   THEN [counted EXCEPT !.latest_tokens =
                            AddTokens(@, token_entry_from_message(line))]
                   ELSE counted

\* One iteration of the loop of process_transcript_stream on a line that
\* read_line returned: st holds the three running locals.
process_line(st, line) ==
    LET moved == [st EXCEPT !.current_offset = @ + line.bytes] IN
    IF line.blank THEN moved
    ELSE LET counted == [moved EXCEPT !.processed_messages = @ + 1] IN
         IF ~line.json THEN counted
         ELSE IF is_compact_summary(line)
              THEN [counted EXCEPT !.latest_tokens = Some(token_entry_from_summary(line))]
              ELSE IF IsSome(token_entry_from_message(line))
                   THEN [counted EXCEPT !.latest_tokens = token_entry_from_message(line)]
                   ELSE counted

RECURSIVE process_transcript_stream(_, _, _)
\* The loop: read_line number fail_at (0: none) returns an I/O error, which
\* `?` propagates; otherwise the loop ends at end of file.
process_transcript_stream(lines, st, fail_at) ==
    IF fail_at = 1 THEN [st EXCEPT !.ok = FALSE]
    ELSE IF lines = <<>> THEN st
    ELSE process_transcript_stream(Tail(lines), process_line(st, Head(lines)),
                                   IF fail_at = 0 THEN 0 ELSE fail_at - 1)

(***************************************************************************)
(* SessionSnapshot (storage/types.rs).                                     *)
(***************************************************************************)
TranscriptStateDefault ==
    [transcript_path |-> None, processed_offset |-> 0, processed_messages |-> 0,
     last_message_uuid |-> None, last_timestamp |-> None]

SessionHistoryDefault ==
    [cost |-> CostHistoryDefault, tokens |-> None, model_usage |-> <<>>]

\* SessionSnapshot::new
SessionSnapshotNew(session_id) ==
    [session_id |-> session_id,
     history |-> SessionHistoryDefault,
     transcript_state |-> TranscriptStateDefault]

(***************************************************************************)
(* StorageManager (storage/manager.rs).                                    *)
(***************************************************************************)
FindModel_MutNeverFound(model_usage, id) == 0

\* Index of the first entry of model_usage with this id, 0 if there is none
\* (iter_mut().find).
FindModel(model_usage, id) ==
    IF \E i \in 1..Len(model_usage) : model_usage[i].id = id
    THEN CHOOSE i \in 1..Len(model_usage) :
            /\ model_usage[i].id = id
            /\ \A j \in 1..(i - 1) : model_usage[j].id # id
    ELSE 0

update_model_usage(model_usage, model, timestamp) ==
    IF model = None THEN model_usage
    ELSE IF Unwrap(model).id = None THEN model_usage
    ELSE LET id == Unwrap(Unwrap(model).id)
             display_name == Unwrap(model).display_name
             i == FindModel(model_usage, id)
         IN  IF i # 0
             THEN [model_usage EXCEPT
                     ![i] = [id |-> @.id,
                             display_name |-> IF IsSome(display_name)
                                              THEN display_name ELSE @.display_name,
                             last_used_at |-> IF IsSome(timestamp)
                                              THEN timestamp ELSE @.last_used_at]]
             ELSE Append(model_usage,
                         [id |-> id, display_name |-> display_name,
                          last_used_at |-> timestamp])

\* The outcome of the file operations of one read_tokens_from_transcript
\* call: which of them, if any, returns an I/O error.
IoOk == [kind |-> "ok", at |-> 0]
IoOutcomes ==
    {IoOk} \cup {[kind |-> k, at |-> 0] : k \in {"metadata", "open", "seek"}}
           \cup {[kind |-> "read", at |-> n] : n \in 1..(MaxLines + 1)}

\* What a read_tokens_from_transcript call saw and did, beside the snapshot
\* it returns: step is "missing" (no such file), "error" (Err returned) or
\* "ok"; offset and start_messages are the locals after the reset decision.
NoObservation ==
    [step |-> "none", file_len |-> 0, needs_reset |-> FALSE, offset |-> 0,
     start_messages |-> 0]

read_tokens_from_transcript_MutCommitOnError(snapshot, transcript_path, file, io) ==
    IF file = None
    THEN [snapshot |-> [snapshot EXCEPT
                          !.transcript_state.transcript_path = Some(transcript_path)],
          obs |-> [NoObservation EXCEPT !.step = "missing"]]
    ELSE IF io.kind = "metadata"
    THEN [snapshot |-> snapshot, obs |-> [NoObservation EXCEPT !.step = "error"]]
    ELSE
    LET content == Unwrap(file)
        file_len == FileLen(content)
        needs_reset == \/ snapshot.transcript_state.transcript_path # Some(transcript_path)
                       \/ snapshot.transcript_state.processed_offset > file_len
        offset == IF needs_reset THEN 0 ELSE snapshot.transcript_state.processed_offset
        processed_messages ==
            IF needs_reset THEN 0 ELSE snapshot.transcript_state.processed_messages
        st == process_transcript_stream(
                  ReadLines(content, offset),
                  [ok |-> TRUE, current_offset |-> offset,
                   processed_messages |-> processed_messages,
                   latest_tokens |-> snapshot.history.tokens],
                  IF io.kind = "read" THEN io.at ELSE 0)
        seen == [step |-> "ok", file_len |-> file_len, needs_reset |-> needs_reset,
                 offset |-> offset, start_messages |-> processed_messages]
    IN  IF io.kind \in {"open", "seek"} \/ ~st.ok
        THEN [snapshot |->
                [snapshot EXCEPT
                   !.transcript_state.transcript_path = Some(transcript_path),
                   !.transcript_state.processed_offset = st.current_offset,
                   !.transcript_state.processed_messages = st.processed_messages],
              obs |-> [seen EXCEPT !.step = "error"]]
        ELSE [snapshot |->
                [snapshot EXCEPT
                   !.transcript_state.transcript_path = Some(transcript_path),
                   !.transcript_state.processed_offset = st.current_offset,
                   !.transcript_state.processed_messages = st.processed_messages,
                   !.transcript_state.last_message_uuid =
                       IF IsSome(st.latest_tokens)
                       THEN Unwrap(st.latest_tokens).last_message_uuid ELSE @,
                   !.transcript_state.last_timestamp =
                       IF IsSome(st.latest_tokens)
                       THEN Unwrap(st.latest_tokens).last_timestamp ELSE @,
                   !.history.tokens =
                       IF IsSome(st.latest_tokens) THEN st.latest_tokens ELSE @],
              obs |-> seen]

read_tokens_from_transcript_MutNoSeek(snapshot, transcript_path, file, io) ==
    IF file = None
    THEN [snapshot |-> [snapshot EXCEPT
                          !.transcript_state.transcript_path = Some(transcript_path)],
          obs |-> [NoObservation EXCEPT !.step = "missing"]]
    ELSE IF io.kind = "metadata"
    THEN [snapshot |-> snapshot, obs |-> [NoObservation EXCEPT !.step = "error"]]
    ELSE
    LET content == Unwrap(file)
        file_len == FileLen(content)
        needs_reset == \/ snapshot.transcript_state.transcript_path # Some(transcript_path)
                       \/ snapshot.transcript_state.processed_offset > file_len
        offset == IF needs_reset THEN 0 ELSE snapshot.transcript_state.processed_offset
        processed_messages ==
            IF needs_reset THEN 0 ELSE snapshot.transcript_state.processed_messages
        st == process_transcript_stream(
                  ReadLines(content, 0),
                  [ok |-> TRUE, current_offset |-> 0,
                   processed_messages |-> processed_messages,
                   latest_tokens |-> snapshot.history.tokens],
                  IF io.kind = "read" THEN io.at ELSE 0)
        seen == [step |-> "ok", file_len |-> file_len, needs_reset |-> needs_reset,
                 offset |-> 0, start_messages |-> processed_messages]
    IN  IF io.kind \in {"open", "seek"} \/ ~st.ok
        THEN [snapshot |-> snapshot, obs |-> [seen EXCEPT !.step = "error"]]
        ELSE [snapshot |->
                [snapshot EXCEPT
                   !.transcript_state.transcript_path = Some(transcript_path),
                   !.transcript_state.processed_offset = st.current_offset,
                   !.transcript_state.processed_messages = st.processed_messages,
                   !.transcript_state.last_message_uuid =
                       IF IsSome(st.latest_tokens)
                       THEN Unwrap(st.latest_tokens).last_message_uuid ELSE @,
                   !.transcript_state.last_timestamp =
                       IF IsSome(st.latest_tokens)
                       THEN Unwrap(st.latest_tokens).last_timestamp ELSE @,
                   !.history.tokens =
                       IF IsSome(st.latest_tokens) THEN st.latest_tokens ELSE @],
              obs |-> seen]

read_tokens_from_transcript_MutMissingResets(snapshot, transcript_path, file, io) ==
    IF file = None
    THEN [snapshot |-> [snapshot EXCEPT
                          !.transcript_state.transcript_path = Some(transcript_path),
                          !.transcript_state.processed_offset = 0,
                          !.transcript_state.processed_messages = 0],
          obs |-> [NoObservation EXCEPT !.step = "missing"]]
    ELSE IF io.kind = "metadata"
    THEN [snapshot |-> snapshot, obs |-> [NoObservation EXCEPT !.step = "error"]]
    ELSE
    LET content == Unwrap(file)
        file_len == FileLen(content)
        needs_reset == \/ snapshot.transcript_state.transcript_path # Some(transcript_path)
                       \/ snapshot.transcript_state.processed_offset > file_len
        offset == IF needs_reset THEN 0 ELSE snapshot.transcript_state.processed_offset
        processed_messages ==
            IF needs_reset THEN 0 ELSE snapshot.transcript_state.processed_messages
        st == process_transcript_stream(
                  ReadLines(content, offset),
                  [ok |-> TRUE, current_offset |-> offset,
                   processed_messages |-> processed_messages,
                   latest_tokens |-> snapshot.history.tokens],
                  IF io.kind = "read" THEN io.at ELSE 0)
        seen == [step |-> "ok", file_len |-> file_len, needs_reset |-> needs_reset,
                 offset |-> offset, start_messages |-> processed_messages]
    IN  IF io.kind \in {"open", "seek"} \/ ~st.ok
        THEN [snapshot |-> snapshot, obs |-> [seen EXCEPT !.step = "error"]]
        ELSE [snapshot |->
                [snapshot EXCEPT
                   !.transcript_state.transcript_path = Some(transcript_path),
                   !.transcript_state.processed_offset = st.current_offset,
                   !.transcript_state.processed_messages = st.processed_messages,
                   !.transcript_state.last_message_uuid =
                       IF IsSome(st.latest_tokens)
                       THEN Unwrap(st.latest_tokens).last_message_uuid ELSE @,
                   !.transcript_state.last_timestamp =
                       IF IsSome(st.latest_tokens)
                       THEN Unwrap(st.latest_tokens).last_timestamp ELSE @,
                   !.history.tokens =
                       IF IsSome(st.latest_tokens) THEN st.latest_tokens ELSE @],
              obs |-> seen]

\* file is the transcript file as the call finds it (None: path.exists() is
\* false); io tells which file operation fails.  Returns the snapshot as the
\* call leaves it, with the observation of the call.
read_tokens_from_transcript(snapshot, transcript_path, file, io) ==
    IF file = None
    THEN [snapshot |-> [snapshot EXCEPT
                          !.transcript_state.transcript_path = Some(transcript_path)],
          obs |-> [NoObservation EXCEPT !.step = "missing"]]
    ELSE IF io.kind = "metadata"
    THEN [snapshot |-> snapshot, obs |-> [NoObservation EXCEPT !.step = "error"]]
    ELSE
    LET content == Unwrap(file)
        file_len == FileLen(content)
        needs_reset == \/ snapshot.transcript_state.transcript_path # Some(transcript_path)
                       \/ snapshot.transcript_state.processed_offset > file_len
        offset == IF needs_reset THEN 0 ELSE snapshot.transcript_state.processed_offset
        processed_messages ==
            IF needs_reset THEN 0 ELSE snapshot.transcript_state.processed_messages
        st == process_transcript_stream(
                  ReadLines(content, offset),
                  [ok |-> TRUE, current_offset |-> offset,
                   processed_messages |-> processed_messages,
                   latest_tokens |-> snapshot.history.tokens],
                  IF io.kind = "read" THEN io.at ELSE 0)
        seen == [step |-> "ok", file_len |-> file_len, needs_reset |-> needs_reset,
                 offset |-> offset, start_messages |-> processed_messages]
    IN  IF io.kind \in {"open", "seek"} \/ ~st.ok
        THEN [snapshot |-> snapshot, obs |-> [seen EXCEPT !.step = "error"]]
        ELSE [snapshot |->
                [snapshot EXCEPT
                   !.transcript_state.transcript_path = Some(transcript_path),
                   !.transcript_state.processed_offset = st.current_offset,
                   !.transcript_state.processed_messages = st.processed_messages,
                   !.transcript_state.last_message_uuid =
                       IF IsSome(st.latest_tokens)
                       THEN Unwrap(st.latest_tokens).last_message_uuid ELSE @,
                   !.transcript_state.last_timestamp =
                       IF IsSome(st.latest_tokens)
                       THEN Unwrap(st.latest_tokens).last_timestamp ELSE @,
                   !.history.tokens =
                       IF IsSome(st.latest_tokens) THEN st.latest_tokens ELSE @],
              obs |-> seen]

extract_session_id_MutDefaultSession(input_data) ==
    IF input_data.session_id = None THEN Some("s1") ELSE input_data.session_id

extract_session_id(input_data) == input_data.session_id
extract_cost_value(input_data) == input_data.cost
extract_model(input_data) == input_data.model
extract_timestamp(input_data) == input_data.timestamp
extract_transcript_path(input_data) == input_data.transcript_path

\* StorageConfig::default (the three fields the manager reads).
DefaultExpiryDays == 30

StorageConfigDefault ==
    [enable_cost_persistence |-> TRUE,
     session_expiry_days |-> Some(DefaultExpiryDays),
     enable_startup_cleanup |-> TRUE]

\* The project ids an initialization can name, and the directories under
\* projects/: one per id, and the one a manager without project id gets from
\* ProjectResolver::get_global_project_id.
ProjectIds == {"p1", "p2"}
ProjectDirs == ProjectIds \cup {"cwd"}

\* initialize_paths: the directory under projects/ of a manager.
project_hash(project_id) ==
    IF IsSome(project_id) THEN Unwrap(project_id) ELSE "cwd"

\* A sessions directory without files.
EmptyDir ==
    [store |-> [s \in SessionIds |-> None],
     mtime |-> [s \in SessionIds |-> 0],
     tmpfiles |-> [s \in SessionIds |-> None]]

\* StorageRuntimeState::default, with every project directory empty.  The
\* variables store, mtime and tmpfiles are the sessions directory of
\* project_hash(runtime.project_id); dirs holds the others.  initialized and
\* settings are bookkeeping: the last initialization that named a project
\* id and is still in force, and the config of the last initialization.
RuntimeInit ==
    [project_id |-> None,
     dirs |-> [d \in ProjectDirs |-> EmptyDir],
     initialized |-> None,
     settings |-> StorageConfigDefault]

\* serde_json::to_string_pretty(snapshot): the text of the snapshot, in two
\* chunks that each name the snapshot they are part of.
Chunk(n, snapshot) == [n |-> n, of |-> Some(snapshot), utf8 |-> TRUE]
to_string_pretty(snapshot) == <<Chunk(1, snapshot), Chunk(2, snapshot)>>

\* Content that is no part of any serialized snapshot: text that is not the
\* JSON of a snapshot, and bytes that are not UTF-8.
MalformedText == [n |-> 0, of |-> None, utf8 |-> TRUE]
InvalidUtf8 == [n |-> 0, of |-> None, utf8 |-> FALSE]

\* fs::read_to_string: the text of the file, None for the error it returns
\* when the bytes are not valid UTF-8.
read_to_string(content) ==
    IF \A i \in 1..Len(content) : content[i].utf8 THEN Some(content) ELSE None

\* serde_json::from_str::<SessionSnapshot>: the snapshot when the text is the
\* complete serialization of one snapshot, None for a parse error.
from_str(text) ==
    IF /\ Len(text) = 2
       /\ text[1].n = 1
       /\ text[2].n = 2
       /\ text[1].of = text[2].of
    THEN text[1].of
    ELSE None

\* The session ids a payload can carry: the plain ones, and one that spells
\* a relative path through the current directory.
AllSessionIds == SessionIds \cup {"./s1"}

\* The components of a session id read as a relative path.
PathComponents(session_id) ==
    IF session_id = "./s1" THEN <<".", "s1">> ELSE <<session_id>>

\* session_file_path: sessions_dir joined with "<session_id>.json", as the
\* file system resolves it: the name (without .json) of the file in the
\* sessions directory, "." components dropped.
session_file_path(session_id) ==
    LET named == SelectSeq(PathComponents(session_id), LAMBDA c : c # ".")
    IN  named[Len(named)]

load_snapshot_MutMissingIsError(session_id) ==
    IF store[session_file_path(session_id)] = None
    THEN [result |-> "error", snapshot |-> None]
    ELSE [result |-> "ok",
          snapshot |-> from_str(Unwrap(store[session_file_path(session_id)]))]

\* load_snapshot: Ok(None) when there is no file or its text does not parse,
\* Err when the file cannot be read as a string, Ok(Some(snapshot)) otherwise.
load_snapshot(session_id) ==
    IF store[session_file_path(session_id)] = None
    THEN [result |-> "ok", snapshot |-> None]
    ELSE IF read_to_string(Unwrap(store[session_file_path(session_id)])) = None
    THEN [result |-> "error", snapshot |-> None]
    ELSE [result |-> "ok",
          snapshot |-> from_str(Unwrap(read_to_string(
                           Unwrap(store[session_file_path(session_id)]))))]

\* save_snapshot, run to its end without another call in between: the
\* sessions directory after the temp-file write and the rename.
save_snapshot(snapshot) ==
    IF ~config.enable_cost_persistence THEN store
    ELSE [store EXCEPT ![session_file_path(snapshot.session_id)] =
             Some(to_string_pretty(snapshot))]

update_snapshot_from_value_MutAlwaysError(input_data, io) ==
    [result |-> "error", snapshot |-> None, obs |-> NoObservation, saved |-> FALSE]

update_snapshot_from_value_MutModelBeforeTranscript(input_data, io) ==
    IF ~config.enable_cost_persistence
    THEN [result |-> "ok", snapshot |-> Some(SessionSnapshotNew("disabled")),
          obs |-> NoObservation, saved |-> FALSE]
    ELSE IF extract_session_id(input_data) = None
    THEN [result |-> "error", snapshot |-> None, obs |-> NoObservation,
          saved |-> FALSE]
    ELSE IF load_snapshot(Unwrap(extract_session_id(input_data))).result = "error"
    THEN [result |-> "error", snapshot |-> None, obs |-> NoObservation,
          saved |-> FALSE]
    ELSE
    LET session_id == Unwrap(extract_session_id(input_data))
        loaded == IF IsSome(load_snapshot(session_id).snapshot)
                  THEN Unwrap(load_snapshot(session_id).snapshot)
                  ELSE SessionSnapshotNew(session_id)
        s0 == [loaded EXCEPT !.session_id = session_id]
        s1 == IF IsSome(extract_cost_value(input_data))
              THEN [s0 EXCEPT !.history.cost =
                       apply(@, from_cost_value(Unwrap(extract_cost_value(input_data))))]
              ELSE s0
        read == IF IsSome(extract_transcript_path(input_data))
                THEN read_tokens_from_transcript(
                         s1, Unwrap(extract_transcript_path(input_data)),
                         fs[Unwrap(extract_transcript_path(input_data))], io)
                ELSE [snapshot |-> s1, obs |-> NoObservation]
        s2 == read.snapshot
        token_timestamp == IF IsSome(s1.history.tokens)
                           THEN Unwrap(s1.history.tokens).last_timestamp ELSE None
        effective_timestamp == IF IsSome(extract_timestamp(input_data))
                               THEN extract_timestamp(input_data) ELSE token_timestamp
        s3 == [s2 EXCEPT !.history.model_usage =
                  update_model_usage(@, extract_model(input_data), effective_timestamp)]
    IN  [result |-> "ok", snapshot |-> Some(s3), obs |-> read.obs, saved |-> TRUE]

\* update_snapshot_from_value on the payload input_data, with the I/O outcome
\* io of its transcript read: the result, the snapshot it builds and what
\* the transcript step observed.
update_snapshot_from_value(input_data, io) ==
    IF ~config.enable_cost_persistence
    THEN [result |-> "ok", snapshot |-> Some(SessionSnapshotNew("disabled")),
          obs |-> NoObservation, saved |-> FALSE]
    ELSE IF extract_session_id(input_data) = None
    THEN [result |-> "error", snapshot |-> None, obs |-> NoObservation,
          saved |-> FALSE]
    ELSE IF load_snapshot(Unwrap(extract_session_id(input_data))).result = "error"
    THEN [result |-> "error", snapshot |-> None, obs |-> NoObservation,
          saved |-> FALSE]
    ELSE
    LET session_id == Unwrap(extract_session_id(input_data))
        loaded == IF IsSome(load_snapshot(session_id).snapshot)
                  THEN Unwrap(load_snapshot(session_id).snapshot)
                  ELSE SessionSnapshotNew(session_id)
        s0 == [loaded EXCEPT !.session_id = session_id]
        s1 == IF IsSome(extract_cost_value(input_data))
              THEN [s0 EXCEPT !.history.cost =
                       apply(@, from_cost_value(Unwrap(extract_cost_value(input_data))))]
              ELSE s0
        read == IF IsSome(extract_transcript_path(input_data))
                THEN read_tokens_from_transcript(
                         s1, Unwrap(extract_transcript_path(input_data)),
                         fs[Unwrap(extract_transcript_path(input_data))], io)
                ELSE [snapshot |-> s1, obs |-> NoObservation]
        s2 == read.snapshot
        token_timestamp == IF IsSome(s2.history.tokens)
                           THEN Unwrap(s2.history.tokens).last_timestamp ELSE None
        effective_timestamp == IF IsSome(extract_timestamp(input_data))
                               THEN extract_timestamp(input_data) ELSE token_timestamp
        s3 == [s2 EXCEPT !.history.model_usage =
                  update_model_usage(@, extract_model(input_data), effective_timestamp)]
    IN  [result |-> "ok", snapshot |-> Some(s3), obs |-> read.obs, saved |-> TRUE]

(***************************************************************************)
(* Payloads.                                                               *)
(***************************************************************************)
RawCostValues == {None} \cup {Some(n) : n \in (-1)..MaxCost}

\* The cost objects of the payloads: every object in which at most one of the
\* five fields differs from the common value of the other four.
CostBlocks ==
    {[f \in CostFields |-> IF f = d THEN v ELSE w] :
        d \in CostFields, v \in RawCostValues, w \in RawCostValues}

SampleCost == [f \in CostFields |-> Some(1)]

SampleModel == [id |-> Some("m1"), display_name |-> Some("Model One")]

\* Payloads that exercise the cost fold.
CostPayloads ==
    {[session_id |-> Some("s1"), cost |-> c, transcript_path |-> None,
      model |-> None, timestamp |-> None] :
        c \in {None} \cup {Some(b) : b \in CostBlocks}}

\* Payloads that exercise the transcript cursor on the given paths; extras
\* are the (cost, model) pairs they carry.
TranscriptPayloads(paths, extras) ==
    {[session_id |-> Some("s1"), cost |-> cm[1], transcript_path |-> t,
      model |-> cm[2], timestamp |-> None] :
        cm \in extras, t \in {None} \cup {Some(q) : q \in paths}}

Bare == {<<None, None>>}
WithCostAndModel == {<<None, None>>, <<Some(SampleCost), Some(SampleModel)>>}

(***************************************************************************)
(* Bookkeeping for the properties (no code reads it).  "The preceding      *)
(* update" is the last update whose payload carried a transcript path.     *)
(*   cursor_path  path of the file the stored offset and message count     *)
(*                were computed on (the last advance that succeeded)       *)
(*   prev_path    transcript path of the preceding update                  *)
(*   prev_read    the preceding update read its transcript to the end      *)
(*   appended, appended_nonblank, append_only                              *)
(*                lines the host appended to the file at prev_path since   *)
(*                the preceding update, and whether appending is all it    *)
(*                did to that file                                         *)
(*   read_count   for the file at the stored transcript path, how often    *)
(*                each byte was read by the advances made since that path  *)
(*                was taken up, or since the file was last truncated or    *)
(*                removed                                                  *)
(*   persisted    the session ids for which an update has saved a snapshot *)
(***************************************************************************)
\* The calls that can be in progress at the same time, and a call not begun.
Procs == {"u1", "u2"}
Idle ==
    [pc |-> "idle", session_id |-> "", content |-> <<>>, handle |-> "none",
     off |-> 0, result |-> "none"]

GhostInit ==
    [cursor_path |-> None, prev_path |-> None, prev_read |-> FALSE,
     appended |-> 0, appended_nonblank |-> 0, append_only |-> TRUE,
     read_count |-> <<>>, persisted |-> {}]

HostOp == [op |-> "host"]

CountReads(counts, from, to) ==
    [i \in 1..(IF to > Len(counts) THEN to ELSE Len(counts)) |->
        (IF i <= Len(counts) THEN counts[i] ELSE 0)
        + (IF from < i /\ i <= to THEN 1 ELSE 0)]

\* The stored snapshot of a session as update loads it (load-or-create).
Stored(session_id) ==
    IF IsSome(load_snapshot(session_id).snapshot)
    THEN Unwrap(load_snapshot(session_id).snapshot)
    ELSE SessionSnapshotNew(session_id)

Init ==
    /\ store = [s \in SessionIds |-> None]
    /\ fs = [p \in TranscriptPaths |-> None]
    /\ lastOp = HostOp
    /\ ghost = GhostInit
    /\ nupdates = 0
    /\ mtime = [s \in SessionIds |-> 0]
    /\ tmpfiles = [s \in SessionIds |-> None]
    /\ procs = [p \in Procs |-> Idle]
    /\ config = StorageConfigDefault
    /\ clock = 0
    /\ runtime = RuntimeInit
    /\ modified = [p \in TranscriptPaths |-> 0]
    /\ transcript_cache = None

\* One call of update_snapshot_from_value.
UpdateSnapshot(input_data, io) ==
    /\ \/ io = IoOk
       \/ /\ IsSome(input_data.transcript_path)
          /\ IsSome(fs[Unwrap(input_data.transcript_path)])
    /\ \E r \in {update_snapshot_from_value(input_data, io)} :
       LET path == input_data.transcript_path
           same_run == /\ path = ghost.prev_path
                       /\ ghost.prev_read
                       /\ ghost.append_only
           base == IF path = Stored(Unwrap(input_data.session_id))
                                .transcript_state.transcript_path
                   THEN ghost.read_count ELSE <<>>
       IN  /\ store' = IF r.saved THEN save_snapshot(Unwrap(r.snapshot)) ELSE store
           /\ mtime' = IF r.saved
                       THEN [mtime EXCEPT
                               ![session_file_path(Unwrap(r.snapshot).session_id)] = clock]
                       ELSE mtime
           /\ tmpfiles' = IF r.saved
                          THEN [tmpfiles EXCEPT
                                  ![session_file_path(Unwrap(r.snapshot).session_id)] = None]
                          ELSE tmpfiles
           /\ lastOp' = [op |-> "update", input_data |-> input_data,
                         result |-> r.result, step |-> r.obs.step,
                         fault |-> IF r.obs.step = "error" THEN io.kind ELSE "none",
                         start |-> r.obs.offset,
                         same_run |-> same_run,
                         appended |-> IF same_run THEN ghost.appended ELSE 0,
                         appended_nonblank |->
                            IF same_run THEN ghost.appended_nonblank ELSE 0,
                         returned |-> IF r.saved THEN None ELSE r.snapshot,
                         repeated |-> /\ lastOp.op = "update"
                                      /\ lastOp.result = "ok"
                                      /\ lastOp.input_data = input_data]
           /\ ghost' =
                IF ~r.saved THEN ghost
                ELSE IF path = None
                THEN [ghost EXCEPT !.persisted = @ \cup {Unwrap(r.snapshot).session_id}]
                ELSE [persisted |-> ghost.persisted \cup {Unwrap(r.snapshot).session_id},
                      cursor_path |->
                         IF r.obs.step = "ok" THEN path ELSE ghost.cursor_path,
                      prev_path |-> path,
                      prev_read |-> r.obs.step = "ok",
                      appended |-> 0, appended_nonblank |-> 0, append_only |-> TRUE,
                      read_count |->
                         IF r.obs.step = "ok"
                         THEN CountReads(base, r.obs.offset,
                                Unwrap(r.snapshot).transcript_state.processed_offset)
                         ELSE IF r.obs.step = "missing" THEN <<>> ELSE ghost.read_count]
    /\ nupdates' = nupdates + 1
    /\ UNCHANGED <<fs, procs, config, clock, runtime,
                   modified, transcript_cache>>

\* The host writes one more line to a transcript, creating the file if needed.
AppendLine(p, line, maxlen) ==
    /\ Len(IF IsSome(fs[p]) THEN Unwrap(fs[p]) ELSE <<>>) < maxlen
    /\ fs' = [fs EXCEPT ![p] = Some(Append(IF IsSome(@) THEN Unwrap(@) ELSE <<>>, line))]
    /\ ghost' = IF Some(p) = ghost.prev_path /\ ghost.prev_read /\ ghost.append_only
                THEN [ghost EXCEPT
                        !.appended = @ + 1,
                        !.appended_nonblank = @ + (IF line.blank THEN 0 ELSE 1)]
                ELSE ghost
    /\ lastOp' = HostOp
    /\ modified' = [modified EXCEPT ![p] = clock]
    /\ UNCHANGED <<store, nupdates, mtime, tmpfiles, procs, config, clock, runtime,
                 transcript_cache>>

\* What truncating or removing the file at p does to the bookkeeping.
GhostAfterLoss(p) ==
    [ghost EXCEPT
       !.append_only = IF Some(p) = ghost.prev_path THEN FALSE ELSE @,
       !.appended = IF Some(p) = ghost.prev_path THEN 0 ELSE @,
       !.appended_nonblank = IF Some(p) = ghost.prev_path THEN 0 ELSE @,
       !.read_count = IF \E s \in SessionIds :
                            Stored(s).transcript_state.transcript_path = Some(p)
                      THEN <<>> ELSE @]

\* The transcript is cut back to its first n lines.
TruncateFile(p, n) ==
    /\ IsSome(fs[p])
    /\ n < Len(Unwrap(fs[p]))
    /\ fs' = [fs EXCEPT ![p] = Some(SubSeq(Unwrap(@), 1, n))]
    /\ ghost' = GhostAfterLoss(p)
    /\ lastOp' = HostOp
    /\ modified' = [modified EXCEPT ![p] = clock]
    /\ UNCHANGED <<store, nupdates, mtime, tmpfiles, procs, config, clock, runtime,
                 transcript_cache>>

\* The transcript is removed.
RemoveFile(p) ==
    /\ IsSome(fs[p])
    /\ fs' = [fs EXCEPT ![p] = None]
    /\ ghost' = GhostAfterLoss(p)
    /\ lastOp' = HostOp
    /\ modified' = [modified EXCEPT ![p] = clock]
    /\ UNCHANGED <<store, nupdates, mtime, tmpfiles, procs, config, clock, runtime,
                 transcript_cache>>

\* What the host does to the transcripts at the given paths.
Host(paths, lines, maxlen) ==
    \/ \E p \in paths, line \in lines : AppendLine(p, line, maxlen)
    \/ \E p \in paths, n \in 0..MaxLines : TruncateFile(p, n)
    \/ \E p \in paths : RemoveFile(p)

UpdateTranscript(paths, extras, ios, cap) ==
    /\ nupdates < cap
    /\ \E d \in TranscriptPayloads(paths, extras), io \in ios : UpdateSnapshot(d, io)

UpdateCost ==
    /\ nupdates < MaxCostUpdates
    /\ \E d \in CostPayloads : UpdateSnapshot(d, IoOk)

\* One session following one transcript, with every kind of line.
Next == UpdateTranscript({"A"}, Bare, {IoOk}, MaxUpdates) \/ Host({"A"}, TranscriptLines, MaxLines)

Spec == Init /\ [][Next]_vars

\* One session following one transcript whose reads may fail.
IoLines == {AssistantLine1, SummaryLine, BlankLine}

NextIo == UpdateTranscript({"A"}, WithCostAndModel, IoOutcomes, MaxUpdates) \/ Host({"A"}, IoLines, MaxLines)

SpecIo == Init /\ [][NextIo]_vars

\* One session whose payloads switch between two transcripts.
PathLines == {AssistantLine1, UserLine}

NextPaths ==
    \/ UpdateTranscript(TranscriptPaths, Bare, {IoOk}, MaxPathUpdates)
    \/ Host(TranscriptPaths, PathLines, MaxPathLines)

SpecPaths == Init /\ [][NextPaths]_vars

\* The last line of the transcript at p has no newline yet.
Pending(p) ==
    /\ IsSome(fs[p])
    /\ Unwrap(fs[p]) # <<>>
    /\ IsPartial(Unwrap(fs[p])[Len(Unwrap(fs[p]))])

\* The writer appends a whole line in one write.
WriteLine(p, line, maxlen) ==
    /\ ~Pending(p)
    /\ AppendLine(p, line, maxlen)

\* The writer appends the first k bytes of a line.
WritePart(p, line, k, maxlen) ==
    /\ ~Pending(p)
    /\ Len(IF IsSome(fs[p]) THEN Unwrap(fs[p]) ELSE <<>>) < maxlen
    /\ fs' = [fs EXCEPT ![p] = Some(Append(IF IsSome(@) THEN Unwrap(@) ELSE <<>>,
                                           LineHead(line, k)))]
    /\ lastOp' = HostOp
    /\ modified' = [modified EXCEPT ![p] = clock]
    /\ UNCHANGED <<store, ghost, nupdates, mtime, tmpfiles, procs, config, clock, runtime,
                 transcript_cache>>

\* The writer appends the rest of the line it began.
CompletePart(p, line) ==
    /\ Pending(p)
    /\ LET content == Unwrap(fs[p])
           head == content[Len(content)]
       IN  /\ head.bytes < line.bytes
           /\ head = LineHead(line, head.bytes)
           /\ fs' = [fs EXCEPT ![p] = Some([content EXCEPT ![Len(content)] = line])]
    /\ ghost' = IF Some(p) = ghost.prev_path /\ ghost.prev_read /\ ghost.append_only
                THEN [ghost EXCEPT
                        !.appended = @ + 1,
                        !.appended_nonblank = @ + (IF line.blank THEN 0 ELSE 1)]
                ELSE ghost
    /\ lastOp' = HostOp
    /\ modified' = [modified EXCEPT ![p] = clock]
    /\ UNCHANGED <<store, nupdates, mtime, tmpfiles, procs, config, clock, runtime,
                 transcript_cache>>

PartialLines == {AssistantLine1, UserLine, BlankLine}

\* One session following one transcript that a writer appends to, a line
\* at a time or a line in two writes.
NextPartial ==
    \/ UpdateTranscript({"A"}, Bare, {IoOk}, MaxPartialUpdates)
    \/ \E line \in PartialLines : WriteLine("A", line, MaxPartialLines)
    \/ \E line \in PartialLines, k \in 1..2 :
          /\ k < line.bytes
          /\ WritePart("A", line, k, MaxPartialLines)
    \/ \E line \in PartialLines : CompletePart("A", line)

SpecPartial == Init /\ [][NextPartial]_vars

\* One session receiving cost reports only.
NextCost == UpdateCost

SpecCost == Init /\ [][NextCost]_vars

(***************************************************************************)
(* ProjectResolver::hash_project_path (storage/project_resolver.rs).  A    *)
(* string is the sequence of its characters.                               *)
(***************************************************************************)
Backslash == "\\"
Letters == {"C", "u"}
Separators == {"/", Backslash}

\* UNC_PREFIXES, in the order they are tried.
UNC_PREFIXES ==
    <<<<Backslash, Backslash, Backslash, Backslash, "?", Backslash>>,
      <<Backslash, Backslash, "?", Backslash>>>>

starts_with(str, prefix) ==
    /\ Len(str) >= Len(prefix)
    /\ SubSeq(str, 1, Len(prefix)) = prefix

\* str.replace(chars, "-")
replace_with_dash(str, chars) ==
    [i \in 1..Len(str) |-> IF str[i] \in chars THEN "-" ELSE str[i]]

\* str.trim_start_matches(ch)
trim_start_matches(str, ch) ==
    LET keep == {i \in 1..Len(str) : str[i] # ch}
    IN  IF keep = {} THEN <<>>
        ELSE SubSeq(str, CHOOSE i \in keep : \A j \in keep : i <= j, Len(str))

\* str.trim_end_matches(ch), also the loop `while ends_with(ch) { pop }`
trim_end_matches(str, ch) ==
    LET keep == {i \in 1..Len(str) : str[i] # ch}
    IN  IF keep = {} THEN <<>>
        ELSE SubSeq(str, 1, CHOOSE i \in keep : \A j \in keep : i >= j)

collapse_dashes_MutKeepRuns(input) == input

\* collapse_dashes: every run of dashes becomes one dash.
RECURSIVE collapse_dashes(_)
collapse_dashes(input) ==
    IF Len(input) < 2 THEN input
    ELSE IF input[1] = "-" /\ input[2] = "-" THEN collapse_dashes(Tail(input))
    ELSE <<input[1]>> \o collapse_dashes(Tail(input))

\* The result after the UNC prefix, if there is one, and the backslashes
\* that follow it are removed.
strip_unc_prefix(result) ==
    IF starts_with(result, UNC_PREFIXES[1])
    THEN trim_start_matches(SubSeq(result, Len(UNC_PREFIXES[1]) + 1, Len(result)),
                            Backslash)
    ELSE IF starts_with(result, UNC_PREFIXES[2])
    THEN trim_start_matches(SubSeq(result, Len(UNC_PREFIXES[2]) + 1, Len(result)),
                            Backslash)
    ELSE result

\* The regular expressions ^([A-Za-z]):\\ and ^([A-Za-z]):/ match.
windows_drive_regex(result, sep) ==
    /\ Len(result) >= 3
    /\ result[1] \in Letters
    /\ result[2] = ":"
    /\ result[3] = sep

\* The non-empty pieces of str between characters of seps.
RECURSIVE Components(_, _)
Components(str, seps) ==
    IF str = <<>> THEN <<>>
    ELSE IF str[1] \in seps THEN Components(Tail(str), seps)
    ELSE LET stops == {i \in 1..Len(str) : str[i] \in seps}
             n == IF stops = {} THEN Len(str)
                  ELSE (CHOOSE i \in stops : \A j \in stops : i <= j) - 1
         IN  <<SubSeq(str, 1, n)>> \o Components(SubSeq(str, n + 1, Len(str)), seps)

RECURSIVE JoinWith(_, _)
JoinWith(parts, sep) ==
    IF parts = <<>> THEN <<>>
    ELSE <<sep>> \o parts[1] \o JoinWith(Tail(parts), sep)

\* Path::canonicalize for a path that exists and has no symbolic link, "."
\* or "..": an absolute Unix path loses its repeated and trailing slashes; a
\* Windows drive path gets the extended-length prefix and single
\* backslashes.  Other paths are taken not to exist.
CanCanonicalize(path) ==
    \/ path[1] = "/"
    \/ /\ windows_drive_regex(strip_unc_prefix(path), Backslash)
          \/ windows_drive_regex(strip_unc_prefix(path), "/")
       /\ \A i \in 3..Len(strip_unc_prefix(path)) :
             strip_unc_prefix(path)[i] \notin {":", "?"}

canonicalize(path, exists) ==
    IF ~exists \/ ~CanCanonicalize(path) THEN path
    ELSE IF path[1] = "/"
    THEN IF Components(path, {"/"}) = <<>> THEN <<"/">>
         ELSE JoinWith(Components(path, {"/"}), "/")
    ELSE LET p == strip_unc_prefix(path)
             rest == Components(SubSeq(p, 4, Len(p)), Separators)
         IN  UNC_PREFIXES[2] \o <<p[1], ":">> \o
                (IF rest = <<>> THEN <<Backslash>> ELSE JoinWith(rest, Backslash))

\* hash_project_path, for a non-empty path; exists says whether canonicalize
\* finds the path.
hash_project_path(project_path, exists) ==
    LET result == strip_unc_prefix(canonicalize(project_path, exists))
        has_drive_prefix ==
            \/ windows_drive_regex(result, Backslash)
            \/ windows_drive_regex(result, "/")
        replaced ==
            IF windows_drive_regex(result, Backslash)
            THEN replace_with_dash(
                     <<result[1], "-", "-">> \o SubSeq(result, 4, Len(result)),
                     {Backslash})
            ELSE IF windows_drive_regex(result, "/")
            THEN replace_with_dash(
                     <<result[1], "-", "-">> \o SubSeq(result, 4, Len(result)),
                     {"/"})
            ELSE replace_with_dash(result, {Backslash, "/", ":"})
        trimmed == trim_end_matches(replaced, "-")
    IN  IF has_drive_prefix /\ Len(trimmed) >= 3
        THEN LET prefix == SubSeq(trimmed, 1, 3)
                 normalized_rest ==
                     trim_start_matches(
                         collapse_dashes(SubSeq(trimmed, 4, Len(trimmed))), "-")
             IN  trim_end_matches(prefix \o normalized_rest, "-")
        ELSE collapse_dashes(trimmed)

\* The paths hashed: up to MaxPathLen characters, alone or behind one of the
\* UNC prefixes.
PathAlphabet == {"C", "/", Backslash, ":", "-", "?"}

PathBodies == UNION {[1..n -> PathAlphabet] : n \in 1..MaxPathLen}

ProjectPaths ==
    PathBodies \cup {UNC_PREFIXES[k] \o b : k \in 1..2, b \in PathBodies}

InitHash ==
    /\ store = [s \in SessionIds |-> None]
    /\ fs = [p \in TranscriptPaths |-> None]
    /\ lastOp \in {[op |-> "path", path |-> p, exists |-> e] :
                        p \in ProjectPaths, e \in BOOLEAN}
    /\ ghost = GhostInit
    /\ nupdates = 0
    /\ mtime = [s \in SessionIds |-> 0]
    /\ tmpfiles = [s \in SessionIds |-> None]
    /\ procs = [p \in Procs |-> Idle]
    /\ config = StorageConfigDefault
    /\ clock = 0
    /\ runtime = RuntimeInit
    /\ modified = [p \in TranscriptPaths |-> 0]
    /\ transcript_cache = None

\* One call of hash_project_path.
HashPath ==
    /\ lastOp.op = "path"
    /\ lastOp' = [op |-> "hash", path |-> lastOp.path, exists |-> lastOp.exists,
                  id |-> hash_project_path(lastOp.path, lastOp.exists)]
    /\ UNCHANGED <<store, fs, ghost, nupdates, mtime, tmpfiles, procs, config, clock, runtime,
                   modified, transcript_cache>>

NextHash == HashPath

SpecHash == InitHash /\ [][NextHash]_vars

(***************************************************************************)
(* Concurrent calls.  An update in progress is at one of the file          *)
(* operations of save_snapshot: fs::write opens <id>.json.tmp (creating    *)
(* or truncating it) and writes the text, chunk by chunk, at its own file  *)
(* position; fs::rename then gives the file the name <id>.json.  A file    *)
(* that is open stays the same file when it is renamed or replaced:        *)
(* handle says under which name the file a process has open is found now   *)
(* ("tmp", "path"), or that it has no name any more ("gone").              *)
(***************************************************************************)
StepOp == [op |-> "step"]

\* The text after a write of chunk c at position i (a position beyond the end
\* leaves a gap the file system fills with NUL bytes).
WriteAt(content, i, c) ==
    IF i <= Len(content) THEN [content EXCEPT ![i] = c]
    ELSE IF i = Len(content) + 1 THEN Append(content, c)
    ELSE Append(Append(content, MalformedText), c)

\* update_snapshot_from_value up to its call of save_snapshot: the snapshot
\* is loaded and the new one is computed.
UBegin(p, input_data) ==
    /\ procs[p].pc = "idle"
    /\ LET r == update_snapshot_from_value(input_data, IoOk)
       IN  procs' = [procs EXCEPT ![p] =
                IF r.saved
                THEN [pc |-> "open",
                      session_id |-> session_file_path(Unwrap(r.snapshot).session_id),
                      content |-> to_string_pretty(Unwrap(r.snapshot)),
                      handle |-> "none", off |-> 0, result |-> "none"]
                ELSE [Idle EXCEPT !.pc = "done", !.result = r.result]]
    /\ lastOp' = StepOp
    /\ UNCHANGED <<store, fs, ghost, nupdates, mtime, tmpfiles, config, clock, runtime,
                   modified, transcript_cache>>

\* fs::write, first half: the temp file is created or truncated.
UOpen(p) ==
    /\ procs[p].pc = "open"
    /\ tmpfiles' = [tmpfiles EXCEPT ![procs[p].session_id] = Some(<<>>)]
    /\ procs' = [procs EXCEPT ![p].pc = "write", ![p].handle = "tmp"]
    /\ lastOp' = StepOp
    /\ UNCHANGED <<store, fs, ghost, nupdates, mtime, config, clock, runtime,
                   modified, transcript_cache>>

\* fs::write, second half: one more chunk is written to the open file; after
\* the last one the file is closed.
UWrite(p) ==
    /\ procs[p].pc = "write"
    /\ LET me == procs[p]
           sid == me.session_id
           i == me.off + 1
           last == i = Len(me.content)
       IN  /\ tmpfiles' = IF me.handle = "tmp"
                          THEN [tmpfiles EXCEPT ![sid] =
                                   Some(WriteAt(Unwrap(@), i, me.content[i]))]
                          ELSE tmpfiles
           /\ store' = IF me.handle = "path"
                       THEN [store EXCEPT ![sid] =
                                Some(WriteAt(Unwrap(@), i, me.content[i]))]
                       ELSE store
           /\ mtime' = IF me.handle = "path" THEN [mtime EXCEPT ![sid] = clock]
                       ELSE mtime
           /\ procs' = [procs EXCEPT
                           ![p].off = i,
                           ![p].pc = IF last THEN "rename" ELSE "write",
                           ![p].handle = IF last THEN "none" ELSE @]
    /\ lastOp' = StepOp
    /\ UNCHANGED <<fs, ghost, nupdates, config, clock, runtime,
                   modified, transcript_cache>>

\* fs::rename(tmp_path, path): an error when there is no temp file; otherwise
\* the temp file replaces the session file.
URename(p) ==
    /\ procs[p].pc = "rename"
    /\ LET sid == procs[p].session_id
       IN  IF tmpfiles[sid] = None
           THEN /\ procs' = [procs EXCEPT ![p].pc = "done", ![p].result = "error"]
                /\ UNCHANGED <<store, tmpfiles, mtime>>
           ELSE /\ store' = [store EXCEPT ![sid] = tmpfiles[sid]]
                /\ tmpfiles' = [tmpfiles EXCEPT ![sid] = None]
                /\ mtime' = [mtime EXCEPT ![sid] = clock]
                /\ procs' = [q \in Procs |->
                       IF q = p
                       THEN [procs[q] EXCEPT !.pc = "done", !.result = "ok"]
                       ELSE IF procs[q].session_id = sid /\ procs[q].handle = "tmp"
                       THEN [procs[q] EXCEPT !.handle = "path"]
                       ELSE IF procs[q].session_id = sid /\ procs[q].handle = "path"
                       THEN [procs[q] EXCEPT !.handle = "gone"]
                       ELSE procs[q]]
    /\ lastOp' = StepOp
    /\ UNCHANGED <<fs, ghost, nupdates, config, clock, runtime,
                   modified, transcript_cache>>

\* get_snapshot: one call, which loads the session file as it is now.
GetSnapshot(session_id) ==
    /\ lastOp' = [op |-> "get", session_id |-> session_id,
                  result |-> load_snapshot(session_id).result,
                  snapshot |-> load_snapshot(session_id).snapshot,
                  seen |-> store[session_file_path(session_id)]]
    /\ UNCHANGED <<store, fs, ghost, nupdates, mtime, tmpfiles, procs, config, clock, runtime,
                   modified, transcript_cache>>

\* cleanup_old_sessions: the session files whose modification time is before
\* the cutoff are removed; nothing is when cleanup is disabled or the
\* retention is unset or zero.
cleanup_old_sessions_MutAtCutoff ==
    IF ~config.enable_startup_cleanup THEN {}
    ELSE IF config.session_expiry_days = None THEN {}
    ELSE IF Unwrap(config.session_expiry_days) = 0 THEN {}
    ELSE {s \in SessionIds :
            /\ IsSome(store[s])
            /\ mtime[s] <= clock - Unwrap(config.session_expiry_days)}

cleanup_old_sessions ==
    IF ~config.enable_startup_cleanup THEN {}
    ELSE IF config.session_expiry_days = None THEN {}
    ELSE IF Unwrap(config.session_expiry_days) = 0 THEN {}
    ELSE {s \in SessionIds :
            /\ IsSome(store[s])
            /\ mtime[s] < clock - Unwrap(config.session_expiry_days)}

\* One call of cleanup_old_sessions.
Cleanup ==
    /\ store' = [s \in SessionIds |->
                    IF s \in cleanup_old_sessions THEN None ELSE store[s]]
    /\ lastOp' = [op |-> "cleanup", removed |-> cleanup_old_sessions]
    /\ UNCHANGED <<fs, ghost, nupdates, mtime, tmpfiles, procs, config, clock, runtime,
                   modified, transcript_cache>>

\* A day passes.
Tick ==
    /\ clock < MaxDays
    /\ clock' = clock + 1
    /\ lastOp' = HostOp
    /\ UNCHANGED <<store, fs, ghost, nupdates, mtime, tmpfiles, procs, config, runtime,
                   modified, transcript_cache>>

\* The content of an existing session file is damaged: it is cut short, or
\* replaced by text that is no snapshot, or by bytes that are not UTF-8.
CorruptContents(content) ==
    {SubSeq(content, 1, n) : n \in 0..(Len(content) - 1)}
        \cup {<<MalformedText>>, <<InvalidUtf8>>}

CorruptFile(session_id) ==
    /\ IsSome(store[session_id])
    /\ \E c \in CorruptContents(Unwrap(store[session_id])) :
          store' = [store EXCEPT ![session_id] = Some(c)]
    /\ mtime' = [mtime EXCEPT ![session_id] = clock]
    /\ lastOp' = HostOp
    /\ UNCHANGED <<fs, ghost, nupdates, tmpfiles, procs, config, clock, runtime,
                   modified, transcript_cache>>

\* The configurations a manager is built with.
StorageConfigs ==
    {[enable_cost_persistence |-> TRUE, session_expiry_days |-> d,
      enable_startup_cleanup |-> c] :
        c \in BOOLEAN, d \in {None} \cup {Some(n) : n \in 0..MaxRetention}}
    \cup {[StorageConfigDefault EXCEPT !.enable_cost_persistence = FALSE]}

\* Payloads with and without a session id, a cost block and a model.
StorePayloads ==
    {[session_id |-> i, cost |-> c, transcript_path |-> None, model |-> m,
      timestamp |-> None] :
        i \in {None, Some("s1")},
        c \in {None, Some(SampleCost)},
        m \in {None, Some(SampleModel)}}

InitStore ==
    /\ store = [s \in SessionIds |-> None]
    /\ fs = [p \in TranscriptPaths |-> None]
    /\ lastOp = HostOp
    /\ ghost = GhostInit
    /\ nupdates = 0
    /\ mtime = [s \in SessionIds |-> 0]
    /\ tmpfiles = [s \in SessionIds |-> None]
    /\ procs = [p \in Procs |-> Idle]
    /\ config \in StorageConfigs
    /\ clock = 0
    /\ runtime = RuntimeInit
    /\ modified = [p \in TranscriptPaths |-> 0]
    /\ transcript_cache = None

UpdateStore ==
    /\ nupdates < MaxStoreUpdates
    /\ \E d \in StorePayloads : UpdateSnapshot(d, IoOk)

\* Updates of one session, gets of two, and cleanups, under every
\* configuration, with a session file that gets damaged and days that pass.
NextStore ==
    \/ UpdateStore
    \/ \E s \in SessionIds : GetSnapshot(s)
    \/ Cleanup
    \/ Tick
    \/ CorruptFile("s1")

SpecStore == InitStore /\ [][NextStore]_vars

\* Payloads that exercise the model-usage list: no model, a model without
\* id, and models with id, each with a display name and a timestamp that is
\* absent, empty or not empty, with or without a transcript to read.
ModelValues ==
    {None, Some([id |-> None, display_name |-> Some("One")])}
        \cup {Some([id |-> Some(i), display_name |-> n]) :
                i \in {"m1", "m2"}, n \in {None, Some(""), Some("One")}}

ModelPayloads ==
    {[session_id |-> Some("s1"), cost |-> None, transcript_path |-> t,
      model |-> m, timestamp |-> ts] :
        m \in ModelValues, ts \in {None, Some(""), Some("T1")},
        t \in {None, Some("A")}}

UpdateModels ==
    /\ nupdates < MaxModelUpdates
    /\ \E d \in ModelPayloads : UpdateSnapshot(d, IoOk)

\* One session whose payloads name models; its transcript gets one record.
NextModels ==
    \/ UpdateModels
    \/ \E line \in {AssistantLine1} : AppendLine("A", line, 1)

SpecModels == Init /\ [][NextModels]_vars

\* Cost reports under every session id.
SessionPayloads ==
    {[session_id |-> Some(i),
      cost |-> Some([f \in CostFields |-> Some(c)]),
      transcript_path |-> None, model |-> None, timestamp |-> None] :
        i \in AllSessionIds, c \in 1..MaxCost}

UpdateSessions ==
    /\ nupdates < MaxSessionUpdates
    /\ \E d \in SessionPayloads : UpdateSnapshot(d, IoOk)

\* Updates and gets of several sessions of one project.
NextSessions ==
    \/ UpdateSessions
    \/ \E s \in AllSessionIds : GetSnapshot(s)

SpecSessions == Init /\ [][NextSessions]_vars

\* Payloads with and without cost, transcript, model and timestamp.
RepeatPayloads ==
    {[session_id |-> Some("s1"), cost |-> c, transcript_path |-> t,
      model |-> mt[1], timestamp |-> mt[2]] :
        c \in {None} \cup {Some([f \in CostFields |-> Some(v)]) : v \in 1..MaxCost},
        t \in {None, Some("A")},
        mt \in {<<None, None>>, <<Some(SampleModel), None>>,
                <<Some(SampleModel), Some("T1")>>}}

\* The transcript read succeeds, or fails when opening or at its first line.
RepeatIo == {IoOk, [kind |-> "open", at |-> 0], [kind |-> "read", at |-> 1]}

UpdateRepeat ==
    /\ nupdates < MaxRepeatUpdates
    /\ \E d \in RepeatPayloads, io \in RepeatIo : UpdateSnapshot(d, io)

\* One session whose payloads come in any order, and may come twice, while
\* the host changes the transcripts.
NextRepeat ==
    \/ UpdateRepeat
    \/ Host({"A"}, {AssistantLine1, SummaryLine}, MaxRepeatLines)

SpecRepeat == Init /\ [][NextRepeat]_vars

\* The file operations of save_snapshot that can return an error.
SaveFaults == {"write", "rename"}

save_snapshot_error_MutWriteInPlace(snapshot, fault) ==
    [store EXCEPT ![session_file_path(snapshot.session_id)] =
        IF fault = "write" THEN Some(<<Chunk(1, snapshot)>>) ELSE None]

\* The sessions directory after a save_snapshot in which fs::write on the
\* temp file or fs::rename returned an error: only the temp path was
\* written, and a failed rename leaves its destination alone.
save_snapshot_error(snapshot, fault) == store

\* What is left at the temp path: a failed fs::write may have created the
\* file and written some of the text; a failed rename leaves all of it.
TmpAfterError(snapshot, fault, before) ==
    IF fault = "rename" THEN {Some(to_string_pretty(snapshot))}
    ELSE {before, Some(<<>>), Some(<<Chunk(1, snapshot)>>)}

\* One call of update_snapshot_from_value in which save_snapshot fails.
UpdateSnapshotSaveError(input_data, fault) ==
    \E r \in {update_snapshot_from_value(input_data, IoOk)} :
        /\ r.saved
        /\ store' = save_snapshot_error(Unwrap(r.snapshot), fault)
        /\ \E t \in TmpAfterError(Unwrap(r.snapshot), fault,
                      tmpfiles[session_file_path(Unwrap(r.snapshot).session_id)]) :
              tmpfiles' = [tmpfiles EXCEPT
                             ![session_file_path(Unwrap(r.snapshot).session_id)] = t]
        /\ lastOp' = [op |-> "update", input_data |-> input_data,
                      result |-> "error", step |-> r.obs.step, fault |-> fault,
                      start |-> r.obs.offset, same_run |-> FALSE,
                      appended |-> 0, appended_nonblank |-> 0, returned |-> None,
                      repeated |-> FALSE]
        /\ nupdates' = nupdates + 1
        /\ UNCHANGED <<fs, ghost, mtime, procs, config, clock, runtime,
                       modified, transcript_cache>>

\* Cost reports for one session.
SavePayloads ==
    {[session_id |-> Some("s1"),
      cost |-> Some([f \in CostFields |-> Some(c)]),
      transcript_path |-> None, model |-> None, timestamp |-> None] :
        c \in 1..MaxCost}

UpdateSave ==
    /\ nupdates < MaxSaveUpdates
    /\ \E d \in SavePayloads : UpdateSnapshot(d, IoOk)

UpdateSaveError ==
    /\ nupdates < MaxSaveUpdates
    /\ \E d \in SavePayloads, fault \in SaveFaults : UpdateSnapshotSaveError(d, fault)

\* Cost reports for one session, some of which cannot be persisted.
NextSave ==
    \/ UpdateSave
    \/ UpdateSaveError
    \/ GetSnapshot("s1")

SpecSave == Init /\ [][NextSave]_vars

\* The settings an initialization can be given (config::StorageConfig).
Settings ==
    {[enable_cost_persistence |-> e, session_expiry_days |-> 1,
      enable_startup_cleanup |-> c] : e \in BOOLEAN, c \in BOOLEAN}

\* convert_settings
convert_settings(settings) ==
    [enable_cost_persistence |-> settings.enable_cost_persistence,
     session_expiry_days |-> Some(settings.session_expiry_days),
     enable_startup_cleanup |-> settings.enable_startup_cleanup]

\* cleanup_old_sessions of a manager with configuration cfg on a sessions
\* directory: the session files it removes.
cleanup_of(cfg, dir) ==
    IF ~cfg.enable_startup_cleanup THEN {}
    ELSE IF cfg.session_expiry_days = None THEN {}
    ELSE IF Unwrap(cfg.session_expiry_days) = 0 THEN {}
    ELSE {s \in SessionIds :
            /\ IsSome(dir.store[s])
            /\ dir.mtime[s] < clock - Unwrap(cfg.session_expiry_days)}

\* The sessions directory the variables hold.
CurrentDir == [store |-> store, mtime |-> mtime, tmpfiles |-> tmpfiles]

\* The directories when the managers move from the current project to the
\* one of project_id.
DirsAfterSwitch == [runtime.dirs EXCEPT ![project_hash(runtime.project_id)] = CurrentDir]

initialize_project_id_MutKeepFirst(project_id) ==
    IF IsSome(runtime.project_id) THEN runtime.project_id ELSE project_id

\* The project id of STORAGE_RUNTIME after initialize_storage_with_settings:
\* a given id replaces the stored one, None leaves it.
initialize_project_id(project_id) ==
    IF IsSome(project_id) THEN project_id ELSE runtime.project_id

\* initialize_storage_with_settings(project_id, settings), run to its end.
Initialize(project_id, settings) ==
    LET cfg == convert_settings(settings)
        id == initialize_project_id(project_id)
        dir == DirsAfterSwitch[project_hash(id)]
        removed == cleanup_of(cfg, dir)
    IN  /\ config' = cfg
        /\ store' = [s \in SessionIds |-> IF s \in removed THEN None ELSE dir.store[s]]
        /\ mtime' = dir.mtime
        /\ tmpfiles' = dir.tmpfiles
        /\ runtime' = [project_id |-> id,
                       dirs |-> DirsAfterSwitch,
                       initialized |->
                          IF IsSome(project_id)
                          THEN Some([project_id |-> Unwrap(project_id), config |-> cfg])
                          ELSE runtime.initialized,
                       settings |-> cfg]
        /\ lastOp' = [op |-> "init", project_id |-> project_id, removed |-> removed]
        /\ UNCHANGED <<fs, ghost, nupdates, procs, clock, modified, transcript_cache>>

\* StorageManager::set_project_id(project_id) on a manager built by new.
SetProjectId(project_id) ==
    /\ store' = DirsAfterSwitch[project_id].store
    /\ mtime' = DirsAfterSwitch[project_id].mtime
    /\ tmpfiles' = DirsAfterSwitch[project_id].tmpfiles
    /\ runtime' = [runtime EXCEPT
                     !.project_id = Some(project_id),
                     !.dirs = DirsAfterSwitch,
                     !.initialized =
                        IF IsSome(@) /\ Unwrap(@).project_id # project_id
                        THEN None ELSE @]
    /\ lastOp' = [op |-> "set_project_id", project_id |-> project_id]
    /\ UNCHANGED <<fs, ghost, nupdates, procs, config, clock, modified, transcript_cache>>

UpdateRegistry ==
    /\ nupdates < MaxRegistryUpdates
    /\ \E d \in SavePayloads : UpdateSnapshot(d, IoOk)

\* One process that initializes the storage, builds managers for updates and
\* gets, and moves between projects, while days pass.
NextRegistry ==
    \/ \E id \in {None} \cup {Some(q) : q \in ProjectIds}, settings \in Settings :
          Initialize(id, settings)
    \/ \E q \in ProjectIds : SetProjectId(q)
    \/ UpdateRegistry
    \/ GetSnapshot("s1")
    \/ Tick

SpecRegistry == Init /\ [][NextRegistry]_vars

(***************************************************************************)
(* The status component (components/status.rs).  In this part the clock    *)
(* counts the ticks of the file system's timestamps: two writes within     *)
(* one tick leave the same modification time.                              *)
(***************************************************************************)
MaxStatusLines == 2

\* StatusInfo's constructors.
ready == [status_type |-> "Ready", message |-> "Ready", details |-> None]

thinking == [status_type |-> "Thinking", message |-> "Thinking", details |-> None]

tool(details) == [status_type |-> "Tool", message |-> "Tool", details |-> details]

error(details) == [status_type |-> "Error", message |-> "Error", details |-> details]

warning(message, details) ==
    [status_type |-> "Warning", message |-> message, details |-> details]

\* Transcript entries as the status component reads them: the entry's type,
\* its message (whether it has usage, its stop_reason, the name of a
\* tool_use item of its content) and its toolUseResult.
UserEntry ==
    [blank |-> FALSE, json |-> TRUE, type |-> Some("user"),
     message |-> Some([usage |-> FALSE, stop_reason |-> None, tool_use |-> None]),
     toolUseResult |-> None]

ToolUseEntry ==
    [blank |-> FALSE, json |-> TRUE, type |-> Some("assistant"),
     message |-> Some([usage |-> TRUE, stop_reason |-> Some("tool_use"),
                       tool_use |-> Some("Bash")]),
     toolUseResult |-> None]

EndTurnEntry ==
    [blank |-> FALSE, json |-> TRUE, type |-> Some("assistant"),
     message |-> Some([usage |-> TRUE, stop_reason |-> Some("end_turn"),
                       tool_use |-> None]),
     toolUseResult |-> None]

StatusEntries == {UserEntry, ToolUseEntry, EndTurnEntry}

parse_stop_reason(reason, tool_name) ==
    CASE reason = "tool_use" -> tool(tool_name)
      [] reason = "max_tokens" -> warning("Max Tokens", Some("Token limit reached"))
      [] reason = "stop_sequence" -> error(Some("Stop sequence encountered"))
      [] OTHER -> ready

\* The entries of the model have no text items, which the second test of
\* is_error_entry looks for.
tool_use_indicates_error(tool_use_result) ==
    IF IsSome(tool_use_result.error)
    THEN ~tool_use_result.blocked
    ELSE tool_use_result.type = Some("error")

is_error_entry(entry) ==
    IsSome(entry.toolUseResult) /\ tool_use_indicates_error(Unwrap(entry.toolUseResult))

get_error_details(entry) ==
    IF IsSome(entry.toolUseResult) /\ IsSome(Unwrap(entry.toolUseResult).error)
    THEN IF Unwrap(entry.toolUseResult).blocked
         THEN None ELSE Unwrap(entry.toolUseResult).error
    ELSE None

\* The lines that are not blank and parse as JSON, in file order.
ParsedEntries(lines) == SelectSeq(lines, LAMBDA l : ~l.blank /\ l.json)

RECENT_WINDOW == 5

extract_tool_use_name(value) ==
    IF IsSome(value.message) THEN Unwrap(value.message).tool_use ELSE None

collect_recent_tool_name(lines) ==
    LET recent == ParsedEntries(SubSeq(lines,
                        IF Len(lines) > RECENT_WINDOW
                        THEN Len(lines) - RECENT_WINDOW + 1 ELSE 1,
                        Len(lines)))
        named == {i \in 1..Len(recent) : IsSome(extract_tool_use_name(recent[i]))}
    IN  IF named = {} THEN None
        ELSE extract_tool_use_name(recent[CHOOSE i \in named : \A j \in named : j <= i])

\* The status parse_transcript_status computes from the content of a file.
status_of_content(lines) ==
    LET entries == ParsedEntries(lines)
        last_entry_type ==
            IF entries = <<>> THEN None ELSE entries[Len(entries)].type
        with_usage == {i \in 1..Len(entries) :
                          /\ entries[i].type = Some("assistant")
                          /\ IsSome(entries[i].message)
                          /\ Unwrap(entries[i].message).usage}
        found == with_usage # {}
        value == entries[CHOOSE i \in with_usage : \A j \in with_usage : j <= i]
        last_stop_reason == IF found THEN Unwrap(value.message).stop_reason ELSE None
        assistant_error == found /\ is_error_entry(value)
        tool_name == collect_recent_tool_name(lines)
    IN  IF \A i \in 1..Len(lines) : lines[i].blank THEN ready
        ELSE IF assistant_error THEN error(get_error_details(value))
        ELSE IF IsSome(last_stop_reason)
             THEN parse_stop_reason(Unwrap(last_stop_reason), tool_name)
        ELSE IF last_entry_type = Some("user") THEN thinking
        ELSE ready

memoize_transcript(mtime_, info) == Some([mtime |-> mtime_, info |-> info])

\* parse_transcript_status: None when the file has no metadata; the cached
\* status when the cache holds the file's modification time; otherwise the
\* status of the file's content, which is memoized.
parse_transcript_status(path) ==
    IF fs[path] = None
    THEN [info |-> None, cache |-> transcript_cache, memoized |-> FALSE]
    ELSE IF IsSome(transcript_cache) /\ Unwrap(transcript_cache).mtime = modified[path]
    THEN [info |-> Some(Unwrap(transcript_cache).info), cache |-> transcript_cache,
          memoized |-> TRUE]
    ELSE [info |-> Some(status_of_content(Unwrap(fs[path]))),
          cache |-> memoize_transcript(modified[path],
                                       status_of_content(Unwrap(fs[path]))),
          memoized |-> FALSE]

\* The payloads of the model carry neither a status nor an error.
parse_status_from_input(input) ==
    IF IsSome(input.stop_reason)
    THEN parse_stop_reason(Unwrap(input.stop_reason), None)
    ELSE ready

StatusInputs ==
    {[transcript_path |-> t, stop_reason |-> r] :
        t \in {None} \cup {Some(p) : p \in TranscriptPaths},
        r \in {None, Some("max_tokens")}}

\* One call of resolve_status by one StatusComponent.
ResolveStatus(input) ==
    /\ \E r \in {IF IsSome(input.transcript_path)
                 THEN parse_transcript_status(Unwrap(input.transcript_path))
                 ELSE [info |-> None, cache |-> transcript_cache, memoized |-> FALSE]} :
          /\ transcript_cache' = r.cache
          /\ lastOp' = [op |-> "resolve_status",
                        transcript_path |-> input.transcript_path,
                        info |-> IF IsSome(r.info) THEN Unwrap(r.info)
                                 ELSE parse_status_from_input(input),
                        memoized |-> r.memoized]
    /\ UNCHANGED <<store, fs, ghost, nupdates, mtime, tmpfiles, procs, config, clock,
                   runtime, modified>>

\* One component rendering two transcripts that the host writes.
NextStatus ==
    \/ \E input \in StatusInputs : ResolveStatus(input)
    \/ Host(TranscriptPaths, StatusEntries, MaxStatusLines)
    \/ Tick

SpecStatus == Init /\ [][NextStatus]_vars

\* The payloads of the concurrent updates: cost reports for one session.
ConcurrentPayloads ==
    {[session_id |-> Some("s1"),
      cost |-> Some([f \in CostFields |-> Some(c)]),
      transcript_path |-> None, model |-> None, timestamp |-> None] :
        c \in 1..MaxCost}

\* Two updates of one session run concurrently, with gets in between.
NextConcurrent ==
    \/ \E p \in Procs, d \in ConcurrentPayloads : UBegin(p, d)
    \/ \E p \in Procs : UOpen(p)
    \/ \E p \in Procs : UWrite(p)
    \/ \E p \in Procs : URename(p)
    \/ GetSnapshot("s1")

SpecConcurrent == Init /\ [][NextConcurrent]_vars

(***************************************************************************)
(* Properties.                                                             *)
(***************************************************************************)
\* The session all payloads of the specifications above name.
Sid == "s1"
\* The snapshot a session file holds.
Parsed(file) == Unwrap(from_str(Unwrap(file)))
Persisted == Parsed(store[Sid])
IsUpdate == lastOp.op = "update"

\* C1: after any sequence of updates, with or without a cost block, every
\* persisted snapshot has, in each of the five cost fields,
\* history.cost.total = history.cost.current + history.cost.accumulated.
C1_TotalIsCurrentPlusAccumulated ==
    \A s \in SessionIds :
        IsSome(store[s]) =>
            LET cost == Parsed(store[s]).history.cost
            IN  \A f \in CostFields : cost.total[f] = cost.current[f] + cost.accumulated[f]

\* C1 witness: a snapshot persisted after a counter reset, where current and
\* accumulated are both non-zero.
C1_Witness ==
    /\ IsSome(store[Sid])
    /\ Persisted.history.cost.current.total_cost_usd = 1
    /\ Persisted.history.cost.accumulated.total_cost_usd = 2
    /\ Persisted.history.cost.total.total_cost_usd = 3
    /\ Persisted.history.cost.accumulated.total_lines_added = 0

\* The step is an update whose payload carries a cost block.
CostStep == lastOp'.op = "update" /\ IsSome(lastOp'.input_data.cost)

\* C2: apply(incoming) adds the previous current of a field to its
\* accumulated exactly when that previous current was positive and the
\* incoming value is strictly below it, field by field and for no other field,
\* and then replaces current by the incoming values.
C2_FoldPerField ==
    [][CostStep =>
        LET prev == Stored(Sid).history.cost
            post == Parsed(store'[Sid]).history.cost
            incoming == from_cost_value(Unwrap(lastOp'.input_data.cost))
        IN  /\ post.current = incoming
            /\ \A f \in CostFields :
                  post.accumulated[f] =
                     IF prev.current[f] > 0 /\ incoming[f] < prev.current[f]
                     THEN prev.accumulated[f] + prev.current[f]
                     ELSE prev.accumulated[f]]_vars

\* C2 witness: lines added was reset and folded while the USD cost, reported
\* higher than before, was not.
C2_Witness ==
    /\ IsUpdate
    /\ IsSome(lastOp.input_data.cost)
    /\ Persisted.history.cost.accumulated.total_lines_added = 2
    /\ Persisted.history.cost.current.total_lines_added = 1
    /\ Persisted.history.cost.accumulated.total_cost_usd = 0
    /\ Persisted.history.cost.current.total_cost_usd = 2

\* The cost values of a payload are as the interface specifies: absent or
\* non-negative.
NonNegativeCost(input_data) ==
    \/ input_data.cost = None
    \/ \A f \in CostFields :
          LET v == Unwrap(input_data.cost)[f] IN v = None \/ Unwrap(v) >= 0

\* C3: from one update to the next, with non-negative cost values, no field
\* of history.cost.total decreases, counter resets included.
C3_TotalNeverDecreases ==
    [][(lastOp'.op = "update" /\ NonNegativeCost(lastOp'.input_data)) =>
        \A f \in CostFields :
            Parsed(store'[Sid]).history.cost.total[f] >= Stored(Sid).history.cost.total[f]]_vars

\* C3 witness: after a reset to a lower non-zero USD value the total exceeds
\* the highest value ever reported.
C3_Witness ==
    /\ IsUpdate
    /\ NonNegativeCost(lastOp.input_data)
    /\ Persisted.history.cost.current.total_cost_usd = 1
    /\ Persisted.history.cost.total.total_cost_usd > MaxCost

(***************************************************************************)
(* Vocabulary of the transcript properties.  In a step, the unprimed       *)
(* Stored(Sid) is the snapshot the update loads and the primed store holds *)
(* the snapshot it persists; fs does not change in an update step.         *)
(***************************************************************************)
UpdateStep == lastOp'.op = "update"
ReadStep == UpdateStep /\ lastOp'.step = "ok"
StepPath == Unwrap(lastOp'.input_data.transcript_path)
StepFile == Unwrap(fs[StepPath])
Before == Stored(Sid)
After == Parsed(store'[Sid])

\* The cursor is valid for the file of this step: same path, offset within
\* the file.
Resuming ==
    /\ Before.transcript_state.transcript_path = Some(StepPath)
    /\ Before.transcript_state.processed_offset <= FileLen(StepFile)

\* The lines the advance of this step is to read.
NewLines ==
    ReadLines(StepFile, IF Resuming THEN Before.transcript_state.processed_offset ELSE 0)

IsSummaryRecord(l) == ~l.blank /\ l.json /\ l.isCompactSummary
IsUsageRecord(l) ==
    ~l.blank /\ l.json /\ ~l.isCompactSummary /\ l.type = "assistant" /\ l.usage # None
TokenBearing(l) == IsSummaryRecord(l) \/ IsUsageRecord(l)

\* Position of the last token-bearing line of lines, 0 when there is none.
LastTokenBearing(lines) ==
    IF \E i \in 1..Len(lines) : TokenBearing(lines[i])
    THEN CHOOSE i \in 1..Len(lines) :
            /\ TokenBearing(lines[i])
            /\ \A j \in (i + 1)..Len(lines) : ~TokenBearing(lines[j])
    ELSE 0

NumberOr0(o) == IF o = None THEN 0 ELSE Unwrap(o)
NonBlank(lines) == Cardinality({i \in 1..Len(lines) : ~lines[i].blank})

\* C4: when the last token-bearing line an update reads is an assistant usage
\* record, history.tokens holds that record's four counts, their sum as
\* context_used and the record's id; the record replaces what was stored.
C4_LastUsageRecordReplaces ==
    [][(ReadStep /\ LastTokenBearing(NewLines) # 0
          /\ IsUsageRecord(NewLines[LastTokenBearing(NewLines)])) =>
        LET rec == NewLines[LastTokenBearing(NewLines)]
            usage == Unwrap(rec.usage)
            tokens == Unwrap(After.history.tokens)
        IN  /\ After.history.tokens # None
            /\ tokens.input = NumberOr0(usage.input_tokens)
            /\ tokens.output = NumberOr0(usage.output_tokens)
            /\ tokens.cache_creation_input = NumberOr0(usage.cache_creation_input_tokens)
            /\ tokens.cache_read_input = NumberOr0(usage.cache_read_input_tokens)
            /\ tokens.context_used =
                  NumberOr0(usage.input_tokens) + NumberOr0(usage.output_tokens)
                  + NumberOr0(usage.cache_creation_input_tokens)
                  + NumberOr0(usage.cache_read_input_tokens)
            /\ tokens.last_message_uuid = rec.uuid]_vars

\* C4 witness: the first update read the transcript when it held one usage
\* record; a summary and a second usage record were appended, and the second
\* update has read both.
C4_Witness ==
    /\ IsUpdate /\ lastOp.step = "ok"
    /\ lastOp.same_run /\ lastOp.appended = 2
    /\ fs["A"] = Some(<<AssistantLine1, SummaryLine, AssistantLine2>>)
    /\ Persisted.history.tokens # None
    /\ Unwrap(Persisted.history.tokens).last_message_uuid = Some("msg-2")
    /\ Unwrap(Persisted.history.tokens).context_used = 230

\* C5: when the last token-bearing line an update reads is a compaction
\* summary, history.tokens is the zero baseline with the summary's timestamp
\* and no message id, and the summary line is counted in processed_messages
\* like every other non-blank line read.
C5_SummaryResetsTokens ==
    [][(ReadStep /\ LastTokenBearing(NewLines) # 0
          /\ IsSummaryRecord(NewLines[LastTokenBearing(NewLines)])) =>
        LET rec == NewLines[LastTokenBearing(NewLines)]
        IN  /\ After.history.tokens =
                  Some([input |-> 0, output |-> 0, cache_creation_input |-> 0,
                        cache_read_input |-> 0, context_used |-> 0,
                        last_message_uuid |-> None,
                        last_timestamp |-> rec.timestamp])
            /\ After.transcript_state.processed_messages =
                  (IF Resuming THEN Before.transcript_state.processed_messages ELSE 0)
                  + NonBlank(NewLines)]_vars

\* C5 witness: tokens were stored from a usage record, a summary line was
\* appended, and the next update has read it.
C5_Witness ==
    /\ IsUpdate /\ lastOp.step = "ok"
    /\ lastOp.same_run /\ lastOp.appended = 1
    /\ fs["A"] = Some(<<AssistantLine1, SummaryLine>>)
    /\ Unwrap(Persisted.history.tokens).context_used = 0
    /\ Unwrap(Persisted.history.tokens).last_timestamp = Some("t2")
    /\ Persisted.transcript_state.processed_messages = 2

\* The step is the second of two successive updates with the same transcript
\* path, both of which read the file, appended to and not otherwise changed
\* in between.
SecondOfTwo == ReadStep /\ lastOp'.same_run

C7_CursorRestartsOnOtherFile ==
    [][(ReadStep /\ (\/ ghost.cursor_path # Some(StepPath)
                     \/ Before.transcript_state.processed_offset > FileLen(StepFile))) =>
        /\ lastOp'.start = 0
        /\ After.transcript_state.processed_offset = FileLen(StepFile)
        /\ After.transcript_state.processed_messages = NonBlank(StepFile)]_vars

\* C8: an advance on the path the cursor is stored for, with the offset
\* within the file, starts reading at the stored processed_offset and stops
\* at the end of the file; processed_offset does not decrease and no byte is
\* read by more than one advance.
C8_ResumesAtStoredOffset ==
    [][(ReadStep /\ Resuming) =>
        /\ lastOp'.start = Before.transcript_state.processed_offset
        /\ After.transcript_state.processed_offset = FileLen(StepFile)
        /\ After.transcript_state.processed_offset
              >= Before.transcript_state.processed_offset
        /\ \A i \in 1..Len(ghost'.read_count) : ghost'.read_count[i] <= 1]_vars

\* C8 witness: a second advance has read the bytes appended after the first,
\* starting where the first stopped; every byte of the file was read once.
C8_Witness ==
    /\ IsUpdate /\ lastOp.step = "ok" /\ lastOp.same_run
    /\ lastOp.appended >= 1 /\ lastOp.start > 0
    /\ Persisted.transcript_state.processed_offset = FileLen(Unwrap(fs["A"]))
    /\ Len(ghost.read_count) = FileLen(Unwrap(fs["A"]))
    /\ \A i \in 1..Len(ghost.read_count) : ghost.read_count[i] = 1

\* What the cost fold and the model-usage update of a payload make of the
\* loaded snapshot when the token step changes no tokens.
ExpectedCost(input_data) ==
    IF IsSome(input_data.cost)
    THEN apply(Before.history.cost, from_cost_value(Unwrap(input_data.cost)))
    ELSE Before.history.cost

ExpectedModelUsage(input_data) ==
    update_model_usage(
        Before.history.model_usage, input_data.model,
        IF IsSome(input_data.timestamp) THEN input_data.timestamp
        ELSE IF IsSome(Before.history.tokens)
             THEN Unwrap(Before.history.tokens).last_timestamp ELSE None)

\* C9: an update whose transcript file does not exist succeeds; it records
\* the path and leaves the rest of transcript_state and history.tokens as
\* they were, and the cost and model-usage changes of the payload are
\* persisted.
C9_MissingTranscriptIsNotAnError ==
    [][(UpdateStep /\ lastOp'.step = "missing") =>
        /\ lastOp'.result = "ok"
        /\ After.transcript_state =
              [Before.transcript_state EXCEPT !.transcript_path = Some(StepPath)]
        /\ After.history.tokens = Before.history.tokens
        /\ After.history.cost = ExpectedCost(lastOp'.input_data)
        /\ After.history.model_usage = ExpectedModelUsage(lastOp'.input_data)]_vars

\* C9 witness: the cursor had advanced, the file was removed, and an update
\* carrying cost and model found no file.
C9_Witness ==
    /\ IsUpdate /\ lastOp.step = "missing" /\ lastOp.result = "ok"
    /\ fs["A"] = None
    /\ IsSome(lastOp.input_data.cost)
    /\ Persisted.transcript_state.processed_offset > 0
    /\ Persisted.history.tokens # None
    /\ Persisted.history.cost.total.total_cost_usd = 1
    /\ Len(Persisted.history.model_usage) = 1

IsComplete(content) == IsSome(from_str(content))

\* C11: a get running at any point during, or between the steps of, one or
\* several updates of the session sees either no file or the complete text
\* some update wrote, never a partially written file.
C11_GetNeverSeesPartialFile ==
    lastOp.op = "get" =>
        \/ lastOp.seen = None
        \/ IsComplete(Unwrap(lastOp.seen))

\* Both concurrent updates have returned.
BothDone == \A p \in Procs : procs[p].pc = "done"

\* C12: when two concurrent updates of one session have both returned,
\* neither reported an error and the session file is the complete snapshot
\* one of them computed.
C12_ConcurrentUpdatesLastWriterWins ==
    BothDone =>
        /\ \A p \in Procs : procs[p].result = "ok"
        /\ IsSome(store["s1"])
        /\ \E p \in Procs : store["s1"] = Some(procs[p].content)
        /\ tmpfiles["s1"] = None

\* C13: a get changes no file, and returns absent, not an error, for every
\* session id for which no update has persisted a snapshot.
C13_GetIsReadOnlyAndAbsentWhenNeverPersisted ==
    [][lastOp'.op = "get" =>
        /\ UNCHANGED <<store, mtime, tmpfiles, fs>>
        /\ (lastOp'.session_id \notin ghost.persisted =>
                /\ lastOp'.result = "ok"
                /\ lastOp'.snapshot = None)]_vars

\* C13 witness: a get of a session never persisted returned absent while the
\* snapshot of another session is stored.
C13_Witness ==
    /\ lastOp.op = "get"
    /\ lastOp.session_id = "s2"
    /\ lastOp.result = "ok" /\ lastOp.snapshot = None
    /\ "s1" \in ghost.persisted /\ IsSome(store["s1"])

\* The session file exists and its content is not a serialized snapshot.
Corrupt(file) == IsSome(file) /\ ~IsComplete(Unwrap(file))

\* C14: when the session file holds corrupt content, a get returns absent
\* rather than an error, and an update of that session succeeds and leaves
\* a valid snapshot in the file.
C14_CorruptSnapshotNeverBlocks ==
    [][/\ (lastOp'.op = "get" /\ Corrupt(store[lastOp'.session_id])) =>
            /\ lastOp'.result = "ok"
            /\ lastOp'.snapshot = None
       /\ (/\ lastOp'.op = "update"
           /\ config.enable_cost_persistence
           /\ IsSome(lastOp'.input_data.session_id)
           /\ Corrupt(store[Unwrap(lastOp'.input_data.session_id)])) =>
            /\ lastOp'.result = "ok"
            /\ ~Corrupt(store'[Unwrap(lastOp'.input_data.session_id)])]_vars

\* C15: with cost persistence turned off an update changes no file, does no
\* cost, token or model processing, and returns the placeholder snapshot,
\* whatever the payload.
C15_DisabledPersistenceIsNoOp ==
    [][(lastOp'.op = "update" /\ ~config.enable_cost_persistence) =>
        /\ UNCHANGED <<store, mtime, tmpfiles>>
        /\ lastOp'.result = "ok"
        /\ lastOp'.step = "none"
        /\ lastOp'.returned = Some(SessionSnapshotNew("disabled"))]_vars

\* C15 witness: an update with a session id, a cost block and a model was
\* made with persistence off; the placeholder came back and no file exists.
C15_Witness ==
    /\ lastOp.op = "update"
    /\ ~config.enable_cost_persistence
    /\ IsSome(lastOp.input_data.session_id)
    /\ IsSome(lastOp.input_data.cost) /\ IsSome(lastOp.input_data.model)
    /\ lastOp.returned = Some(SessionSnapshotNew("disabled"))
    /\ \A s \in SessionIds : store[s] = None

\* C16: a cleanup removes a session file only if cleanup is enabled, the
\* retention is set and not zero, and the file's modification time is
\* strictly before now minus the retention; so a file an update wrote within
\* the retention window stays.
C16_CleanupRemovesOnlyExpired ==
    [][lastOp'.op = "cleanup" =>
        \A s \in SessionIds :
            (IsSome(store[s]) /\ store'[s] = None) =>
                /\ config.enable_startup_cleanup
                /\ IsSome(config.session_expiry_days)
                /\ Unwrap(config.session_expiry_days) > 0
                /\ mtime[s] < clock - Unwrap(config.session_expiry_days)]_vars

\* C16 witness: a cleanup has removed the file of a session that an update
\* had persisted.
C16_Witness ==
    /\ lastOp.op = "cleanup"
    /\ lastOp.removed = {"s1"}
    /\ "s1" \in ghost.persisted
    /\ store["s1"] = None

\* The model id of the payload of the update step, None if it has none.
StepModelId ==
    IF IsSome(lastOp'.input_data.model)
    THEN Unwrap(lastOp'.input_data.model).id ELSE None

ModelIds(model_usage) == {model_usage[i].id : i \in 1..Len(model_usage)}

\* C17: after every update history.model_usage has at most one entry per
\* model id; an update with an id already present keeps the list's length
\* and changes no other entry, one with a new id appends one entry at the
\* end, and in every case the entries present before keep their ids and
\* their positions.
C17_ModelUsageOneEntryPerId ==
    [][UpdateStep =>
        LET old == Before.history.model_usage
            new == After.history.model_usage
        IN  /\ Cardinality(ModelIds(new)) = Len(new)
            /\ Len(new) >= Len(old)
            /\ \A i \in 1..Len(old) : new[i].id = old[i].id
            /\ IF StepModelId = None THEN new = old
               ELSE IF Unwrap(StepModelId) \in ModelIds(old)
               THEN /\ Len(new) = Len(old)
                    /\ \A i \in 1..Len(old) :
                          old[i].id # Unwrap(StepModelId) => new[i] = old[i]
               ELSE /\ Len(new) = Len(old) + 1
                    /\ SubSeq(new, 1, Len(old)) = old
                    /\ new[Len(new)].id = Unwrap(StepModelId)]_vars

\* C17 witness: m1 was seen, then m2, then m1 again: two entries, in the
\* order of first appearance.
C17_Witness ==
    /\ IsUpdate /\ lastOp.result = "ok"
    /\ IsSome(lastOp.input_data.model)
    /\ Unwrap(lastOp.input_data.model).id = Some("m1")
    /\ Len(Persisted.history.model_usage) = 2
    /\ Persisted.history.model_usage[1].id = "m1"
    /\ Persisted.history.model_usage[2].id = "m2"

\* A payload field that is present and not the empty string.
NonEmpty(o) == IsSome(o) /\ Unwrap(o) # ""

\* C18: an update without a model id leaves history.model_usage unchanged;
\* for an id already in the list, the entry's display name and timestamp
\* are replaced by the payload's when those are not empty and are kept when
\* the payload's are missing or empty.
C18_OnlyNonEmptyFieldsOverwrite ==
    [][UpdateStep =>
        LET old == Before.history.model_usage
            new == After.history.model_usage
            payload == lastOp'.input_data
        IN  IF StepModelId = None THEN new = old
            ELSE \A i \in 1..Len(old) :
                    old[i].id = Unwrap(StepModelId) =>
                        /\ new[i].display_name =
                              IF NonEmpty(Unwrap(payload.model).display_name)
                              THEN Unwrap(payload.model).display_name
                              ELSE old[i].display_name
                        /\ new[i].last_used_at =
                              IF NonEmpty(payload.timestamp)
                              THEN payload.timestamp
                              ELSE old[i].last_used_at]_vars

\* hash_project_path has been applied to lastOp.path.
HashStep == lastOp.op = "hash"

\* The path begins with a drive letter followed by :\ or :/, possibly behind
\* a UNC prefix.
HasDrivePrefix(path) ==
    \/ windows_drive_regex(strip_unc_prefix(path), Backslash)
    \/ windows_drive_regex(strip_unc_prefix(path), "/")

\* The path with its i-th character repeated.
Dup(path, i) == SubSeq(path, 1, i) \o <<path[i]>> \o SubSeq(path, i + 1, Len(path))

NoDoubleDash(id) == \A i \in 1..(Len(id) - 1) : ~(id[i] = "-" /\ id[i + 1] = "-")
NoTrailingDash(id) == id = <<>> \/ id[Len(id)] # "-"

\* What the hash of a path without drive prefix looks like, and that
\* repeating any one of its separators leaves it the same.
SeparatorsCollapsed ==
    /\ NoDoubleDash(lastOp.id)
    /\ NoTrailingDash(lastOp.id)
    /\ \A i \in 1..Len(lastOp.id) : lastOp.id[i] \notin Separators
    /\ \A i \in 1..Len(lastOp.path) :
          lastOp.path[i] \in Separators =>
              hash_project_path(Dup(lastOp.path, i), lastOp.exists) = lastOp.id

BeginsLikeUnc(path) ==
    LET t == trim_start_matches(path, Backslash)
    IN  /\ Len(t) < Len(path)
        /\ Len(path) - Len(t) <= Len(UNC_PREFIXES[1]) - 2
        /\ starts_with(t, <<"?", Backslash>>)

C20_DrivePrefixKeepsTwoDashes ==
    (HashStep /\ HasDrivePrefix(lastOp.path)) =>
        /\ Len(lastOp.id) >= 3
        /\ lastOp.id[1] = strip_unc_prefix(lastOp.path)[1]
        /\ lastOp.id[2] = "-"
        /\ lastOp.id[3] = "-"
        /\ \A i \in 1..(Len(lastOp.id) - 2) :
              ~(lastOp.id[i] = "-" /\ lastOp.id[i + 1] = "-" /\ lastOp.id[i + 2] = "-")

\* C21: the identifier contains no path separator, and no colon when the
\* path has no drive prefix.
C21_IdentifierIsOneDirectoryName ==
    HashStep =>
        /\ \A i \in 1..Len(lastOp.id) : lastOp.id[i] \notin Separators
        /\ ~HasDrivePrefix(lastOp.path) =>
              \A i \in 1..Len(lastOp.id) : lastOp.id[i] # ":"

\* C22: an update of one session id leaves the file of every other session
\* id alone: the other id names another file, and that file is unchanged.
C22_SessionIdIsSoleIdentityKey ==
    [][(lastOp'.op = "update" /\ lastOp'.result = "ok") =>
          \A s2 \in AllSessionIds \ {Unwrap(lastOp'.input_data.session_id)} :
              /\ session_file_path(s2) #
                    session_file_path(Unwrap(lastOp'.input_data.session_id))
              /\ store'[session_file_path(s2)] = store[session_file_path(s2)]]_vars

\* C23: with persistence enabled, an update whose payload has no session id
\* returns an error and leaves every session file and temp file as it was.
C23_NoSessionIdIsAnError ==
    [][(/\ lastOp'.op = "update"
        /\ config.enable_cost_persistence
        /\ lastOp'.input_data.session_id = None) =>
            /\ lastOp'.result = "error"
            /\ store' = store
            /\ tmpfiles' = tmpfiles
            /\ mtime' = mtime]_vars

\* C23 witness: a payload with a cost block but no session id was refused
\* while a snapshot of s1 was stored.
C23_Witness ==
    /\ lastOp.op = "update"
    /\ config.enable_cost_persistence
    /\ lastOp.input_data.session_id = None
    /\ IsSome(lastOp.input_data.cost)
    /\ lastOp.result = "error"
    /\ IsSome(store["s1"])

\* What one advance from offset 0 over the transcript as it is now gives.
SingleAdvance ==
    process_transcript_stream(
        ReadLines(Unwrap(fs["A"]), 0),
        [ok |-> TRUE, current_offset |-> 0, processed_messages |-> 0,
         latest_tokens |-> None],
        0)

\* C24: after an update that read the growing transcript, with no line left
\* unterminated, history.tokens and processed_messages are those of a single
\* advance from offset 0 over the file.
C24_IncrementalEqualsSingleAdvance ==
    (lastOp.op = "update" /\ lastOp.step = "ok" /\ ~Pending("A")) =>
        /\ Persisted.history.tokens = SingleAdvance.latest_tokens
        /\ Persisted.transcript_state.processed_messages =
              SingleAdvance.processed_messages

\* C25: an update whose save fails returns the error, and every session
\* file holds what it held before.
C25_FailedSaveKeepsFormerSnapshot ==
    [][(lastOp'.op = "update" /\ lastOp'.fault \in SaveFaults) =>
          /\ lastOp'.result = "error"
          /\ store' = store
          /\ IsSome(store[Sid]) => IsSome(from_str(Unwrap(store'[Sid])))]_vars

\* C25 witness: the rename of an update failed while a snapshot of the
\* session was stored; the new text is left at the temp path.
C25_Witness ==
    /\ lastOp.op = "update"
    /\ lastOp.fault = "rename"
    /\ lastOp.result = "error"
    /\ IsSome(store[Sid])
    /\ IsSome(tmpfiles[Sid])
    /\ tmpfiles[Sid] # store[Sid]

\* C26: an update with a model and no timestamp in its payload persists a
\* snapshot that holds the folded cost, the advanced cursor, and a model
\* entry whose last_used_at is the last_timestamp of history.tokens as this
\* same update's transcript advance left it.
C26_StepsRunInOrder ==
    [][(/\ lastOp'.op = "update"
        /\ lastOp'.result = "ok"
        /\ IsSome(lastOp'.input_data.model)
        /\ lastOp'.input_data.timestamp = None) =>
          LET before == Stored(Sid)
              after == Parsed(store'[Sid])
              tokens == after.history.tokens
              path == lastOp'.input_data.transcript_path
              i == FindModel(after.history.model_usage,
                             Unwrap(Unwrap(lastOp'.input_data.model).id))
          IN  /\ i # 0
              /\ (IsSome(tokens) /\ IsSome(Unwrap(tokens).last_timestamp)) =>
                    after.history.model_usage[i].last_used_at =
                        Unwrap(tokens).last_timestamp
              /\ IsSome(lastOp'.input_data.cost) =>
                    after.history.cost =
                        apply(before.history.cost,
                              from_cost_value(Unwrap(lastOp'.input_data.cost)))
              /\ lastOp'.step = "ok" =>
                    /\ after.transcript_state.transcript_path = path
                    /\ after.transcript_state.processed_offset =
                          FileLen(Unwrap(fs[Unwrap(path)]))]_vars

\* C26 witness: an update with cost and model read new lines of the
\* transcript that changed the token timestamp, and the model entry carries
\* the new timestamp.
C26_Witness ==
    /\ lastOp.op = "update" /\ lastOp.step = "ok" /\ lastOp.start > 0
    /\ IsSome(lastOp.input_data.model)
    /\ IsSome(lastOp.input_data.cost)
    /\ IsSome(Persisted.history.tokens)
    /\ Unwrap(Persisted.history.tokens).last_timestamp = Some("t2")
    /\ Len(Persisted.history.model_usage) = 1
    /\ Persisted.history.model_usage[1].last_used_at = Some("t2")
    /\ Persisted.history.cost.total.total_cost_usd > 0

\* The history and the transcript cursor of the stored snapshot are the same
\* after the step as before it.
SameHistoryAndCursor ==
    /\ Parsed(store'[Sid]).history = Parsed(store[Sid]).history
    /\ Parsed(store'[Sid]).transcript_state = Parsed(store[Sid]).transcript_state

C28_IdentifierIsNotEmpty ==
    (HashStep /\ lastOp.path # <<>>) => lastOp.id # <<>>

\* An initialization that named a project id is in force.
Initialized == IsSome(runtime.initialized)

C30_MemoizedStatusIsOfTheCurrentFile ==
    [][(/\ lastOp'.op = "resolve_status"
        /\ IsSome(lastOp'.transcript_path)
        /\ IsSome(fs[Unwrap(lastOp'.transcript_path)])) =>
            lastOp'.info = status_of_content(Unwrap(fs[Unwrap(lastOp'.transcript_path)]))]_vars

====
